---- MODULE Spec2Model ----
(***************************************************************************)
(* A model of pySHAPE's core: the mesh metrics of pyshape/geometry.py, the *)
(* form descriptors of pyshape/form.py and the STL loader of pyshape/io.py.*)
(*                                                                         *)
(* Numbers are exact.  Coordinates of the mesh part are integers; an area  *)
(* (a sum of square roots) is kept as a sum of radicals, a centroid as a   *)
(* vector of numerators over one denominator.  Three specifications share  *)
(* the module: SpecMesh calls the geometry functions on bounded meshes,    *)
(* SpecStl loads bounded files byte by byte, SpecForm calls the scalar     *)
(* formulas of pyshape/form.py on bounded fractions.                       *)
(***************************************************************************)
EXTENDS Integers, Sequences, FiniteSets

VARIABLES
  nodes,     \* mesh part: the caller's (N, 3) array, a sequence of points
  idx,       \* mesh part: the caller's index array [w: columns, rows: sequence of rows]
  call,      \* mesh part: the function called, "none" before the call
  res,       \* mesh part: what the call returned or raised
  args,      \* form part: the scalar arguments of the call
  HAS_TRIMESH, \* loader: whether `import trimesh` succeeded
  exists,    \* loader: whether the path names a file
  data,      \* loader: the file's bytes
  merge,     \* loader: the merge_vertices argument
  lpc,       \* loader: "start", "binary", "text", "lines", "post", "done"
  triangles, \* loader: the decoded (T, 3, 3) array, "None" before
  lines,     \* text decoder: the lines still to scan
  tris,      \* text decoder: the triangles flushed so far
  cur,       \* text decoder: the pending vertices
  out        \* loader: what load_stl returned or raised

meshVars == <<nodes, idx, call, res, args>>
stlVars == <<HAS_TRIMESH, exists, data, merge, lpc, triangles, lines, tris, cur, out>>
vars ==
  <<nodes, idx, call, res, args, HAS_TRIMESH, exists, data, merge, lpc, triangles, lines, tris, cur, out>>

(***************************************************************************)
(* Bounds of the model.                                                    *)
(***************************************************************************)
\* the largest number of rows (triangles, tetrahedra) of an index array
MaxRows == 2

\* the largest numerator of a scalar argument
MaxScalar == 3

(***************************************************************************)
(* Arithmetic helpers.                                                     *)
(***************************************************************************)
Abs(x) == IF x < 0 THEN -x ELSE x

Min(S) == CHOOSE x \in S : \A y \in S : x <= y

Max(S) == CHOOSE x \in S : \A y \in S : x >= y

RECURSIVE SumSeq(_)
SumSeq(s) == IF s = <<>> THEN 0 ELSE Head(s) + SumSeq(Tail(s))

Sub(p, q) == <<p[1] - q[1], p[2] - q[2], p[3] - q[3]>>

Add(p, q) == <<p[1] + q[1], p[2] + q[2], p[3] + q[3]>>

Scale(k, p) == <<k * p[1], k * p[2], k * p[3]>>

\* np.cross
Cross(u, v) ==
  <<u[2] * v[3] - u[3] * v[2], u[3] * v[1] - u[1] * v[3], u[1] * v[2] - u[2] * v[1]>>

Dot(u, v) == u[1] * v[1] + u[2] * v[2] + u[3] * v[3]

\* The largest k with k*k dividing n (n > 0): sqrt(n) = k * sqrt(n / k^2).
SquarePart(n) ==
  Max({k \in 1..n : k * k <= n /\ n % (k * k) = 0})

\* np.linalg.norm of an integer vector, exactly: the radical k * sqrt(s) with s
\* square-free, as [s |-> k]; the zero vector has the empty sum.
Norm(v) ==
  LET n == Dot(v, v)
      k == SquarePart(n)
  IN  IF n = 0 THEN <<>> ELSE [s \in {n \div (k * k)} |-> k]

\* The sum of two sums of radicals.  Square roots of distinct square-free
\* numbers are linearly independent over the rationals, so two sums are the
\* same real number exactly when they are the same function.
RadAdd(f, g) ==
  [s \in (DOMAIN f) \cup (DOMAIN g) |->
     (IF s \in DOMAIN f THEN f[s] ELSE 0) + (IF s \in DOMAIN g THEN g[s] ELSE 0)]

RECURSIVE RadSum(_)
RadSum(s) == IF s = <<>> THEN <<>> ELSE RadAdd(Head(s), RadSum(Tail(s)))

(***************************************************************************)
(* Index arrays.                                                           *)
(***************************************************************************)
\* faces.size
Size(a) == Len(a.rows) * a.w

\* the entries of an index array
Entries(a) == {a.rows[r][c] : r \in 1..Len(a.rows), c \in 1..a.w}

\* faces + k
Shift(a, k) ==
  [w |-> a.w, rows |-> [r \in 1..Len(a.rows) |-> [c \in 1..a.w |-> a.rows[r][c] + k]]]

\* nodes[i] for a 0-based i
At(nd, i) == nd[i + 1]

(***************************************************************************)
(* pyshape/geometry.py                                                     *)
(***************************************************************************)
Raise(type, msg) == [kind |-> "raise", type |-> type, msg |-> msg]

\* A detection that forgets the test of the maximum.
OneBased_MinOnly(a, N) == Size(a) # 0 /\ Min(Entries(a)) = 1

\* `faces.size and faces.min() == 1 and faces.max() == nodes.shape[0]`
OneBased(a, N) == Size(a) # 0 /\ Min(Entries(a)) = 1 /\ Max(Entries(a)) = N

\* A conversion that never happens.
ConvertIndices_Never(a, N) == a

\* A conversion that moves only the first column.
ConvertIndices_FirstColumn(a, N) ==
  IF OneBased(a, N)
  THEN [w |-> a.w,
        rows |-> [r \in 1..Len(a.rows) |->
                    [c \in 1..a.w |-> IF c = 1 THEN a.rows[r][c] - 1 ELSE a.rows[r][c]]]]
  ELSE a

\* the auto-detection of 1-based indices: `faces = faces - 1` when detected
ConvertIndices(a, N) == IF OneBased(a, N) THEN Shift(a, -1) ELSE a

\* `faces.size and (faces.min() < 0 or faces.max() >= nodes.shape[0])`
OutOfRange(a, N) == Size(a) # 0 /\ (Min(Entries(a)) < 0 \/ Max(Entries(a)) >= N)

\* np.cross(v1, v2) of one triangle, v1 = B - A and v2 = C - A
FaceCross(nd, row) ==
  Cross(Sub(At(nd, row[2]), At(nd, row[1])), Sub(At(nd, row[3]), At(nd, row[1])))

\* surface_area(nodes, faces).  The area is returned doubled (area2), which
\* keeps the factor 0.5 out of the radicals: area = 0.5 * area2.
surface_area(nd, fa) ==
  IF fa.w # 3 THEN Raise("ValueError", "faces must have shape (M, 3)")
  ELSE LET faces == ConvertIndices(fa, Len(nd))
       IN  IF OutOfRange(faces, Len(nd))
           THEN Raise("ValueError", "face indices out of range for nodes array")
           ELSE [kind |-> "ok", faces |-> faces,
                 area2 |-> RadSum([k \in 1..Len(faces.rows) |->
                                     Norm(FaceCross(nd, faces.rows[k]))])]

\* The signed triple product, without np.abs.
TetVolume6_Signed(nd, row) ==
  LET a == At(nd, row[1])
      b == At(nd, row[2])
      c == At(nd, row[3])
      d == At(nd, row[4])
  IN  Dot(Cross(Sub(b, d), Sub(c, d)), Sub(a, d))

\* |(a-d) . ((b-d) x (c-d))| of one tetrahedron: six times its volume
TetVolume6(nd, row) ==
  LET a == At(nd, row[1])
      b == At(nd, row[2])
      c == At(nd, row[3])
      d == At(nd, row[4])
  IN  Abs(Dot(Cross(Sub(b, d), Sub(c, d)), Sub(a, d)))

\* a + b + c + d of one tetrahedron: four times its centroid
TetVertexSum(nd, row) ==
  Add(Add(At(nd, row[1]), At(nd, row[2])), Add(At(nd, row[3]), At(nd, row[4])))

RECURSIVE VecSum(_)
VecSum(s) == IF s = <<>> THEN <<0, 0, 0>> ELSE Add(Head(s), VecSum(Tail(s)))

RECURSIVE Gcd(_, _)
Gcd(a, b) == IF b = 0 THEN Abs(a) ELSE Gcd(b, a % b)

RECURSIVE GcdSeq(_)
GcdSeq(s) == IF s = <<>> THEN 0 ELSE Gcd(Head(s), GcdSeq(Tail(s)))

\* The vector num / den in lowest terms (den > 0): one value, one form.
Frac(num, den) ==
  LET g == GcdSeq(num \o <<den>>)
  IN  [num |-> [i \in 1..Len(num) |-> num[i] \div g], den |-> den \div g]

\* np.zeros((3, 3))
Zeros3x3 == Frac(<<0, 0, 0, 0, 0, 0, 0, 0, 0>>, 1)

\* The sum of the vertex sums, without the weights v.
CentroidSum_Unweighted(nd, rows, v6) ==
  VecSum([t \in 1..Len(rows) |-> TetVertexSum(nd, rows[t])])

\* (v[:, None] * tet_centroids).sum(axis=0), times 24: the sum of v6 * (a+b+c+d)
CentroidSum(nd, rows, v6) ==
  VecSum([t \in 1..Len(rows) |-> Scale(v6[t], TetVertexSum(nd, rows[t]))])

\* A tensor whose off-diagonal entries are the products of inertia themselves.
CurrentInertia_PlainProducts(nd, rows, v6, cnum, cden) ==
  LET X(t, j, ax) == cden * At(nd, rows[t][j])[ax] - cnum[ax]
      S(t, ax) == X(t, 1, ax) + X(t, 2, ax) + X(t, 3, ax) + X(t, 4, ax)
      P(t, ax, bx) == X(t, 1, ax) * X(t, 1, bx) + X(t, 2, ax) * X(t, 2, bx)
                      + X(t, 3, ax) * X(t, 3, bx) + X(t, 4, ax) * X(t, 4, bx)
      Diag(ax, bx) ==
        SumSeq([t \in 1..Len(rows) |->
                  v6[t] * (S(t, ax) * S(t, ax) + P(t, ax, ax)
                           + S(t, bx) * S(t, bx) + P(t, bx, bx))])
      Prod(ax, bx) ==
        SumSeq([t \in 1..Len(rows) |-> v6[t] * (S(t, ax) * S(t, bx) + P(t, ax, bx))])
  IN  Frac(<<Diag(2, 3), Prod(1, 2), Prod(1, 3), Prod(1, 2), Diag(1, 3), Prod(2, 3),
             Prod(1, 3), Prod(2, 3), Diag(1, 2)>>, 120 * cden * cden)

\* The current inertia tensor about the centroid cnum / cden.  With D = cden
\* and X = D*x - cnum the shifted coordinates times D, every per-tetrahedron
\* term coef * (Sy*Sy + Syy + ...) is v6 * (SY*SY + SYY + ...) / (120 D^2).
CurrentInertia(nd, rows, v6, cnum, cden) ==
  LET X(t, j, ax) == cden * At(nd, rows[t][j])[ax] - cnum[ax]
      S(t, ax) == X(t, 1, ax) + X(t, 2, ax) + X(t, 3, ax) + X(t, 4, ax)
      P(t, ax, bx) == X(t, 1, ax) * X(t, 1, bx) + X(t, 2, ax) * X(t, 2, bx)
                      + X(t, 3, ax) * X(t, 3, bx) + X(t, 4, ax) * X(t, 4, bx)
      Diag(ax, bx) ==
        SumSeq([t \in 1..Len(rows) |->
                  v6[t] * (S(t, ax) * S(t, ax) + P(t, ax, ax)
                           + S(t, bx) * S(t, bx) + P(t, bx, bx))])
      Prod(ax, bx) ==
        SumSeq([t \in 1..Len(rows) |-> v6[t] * (S(t, ax) * S(t, bx) + P(t, ax, bx))])
      Ixx == Diag(2, 3)
      Iyy == Diag(1, 3)
      Izz == Diag(1, 2)
      Ixy == Prod(1, 2)
      Ixz == Prod(1, 3)
      Iyz == Prod(2, 3)
  IN  Frac(<<Ixx, -Ixy, -Ixz, -Ixy, Iyy, -Iyz, -Ixz, -Iyz, Izz>>, 120 * cden * cden)

\* volume_centroid_inertia_tensor(nodes, elements, calculate_inertia).  The
\* volume is returned six-fold (volume6).  np.linalg.eigh is not evaluated:
\* the principal moments and axes are eigh of the current tensor, unevaluated.
volume_centroid_inertia_tensor(nd, el, calculate_inertia) ==
  IF el.w # 4 THEN Raise("ValueError", "elements must have shape (M, 4)")
  ELSE LET elements == ConvertIndices(el, Len(nd))
           rows == elements.rows
           v6 == [t \in 1..Len(rows) |-> TetVolume6(nd, rows[t])]
           volume6 == SumSeq(v6)
           cnum == CentroidSum(nd, rows, v6)
           centroid == Frac(cnum, 4 * volume6)
           current == CurrentInertia(nd, rows, v6, cnum, 4 * volume6)
       IN  IF OutOfRange(elements, Len(nd))
           THEN Raise("ValueError", "element indices out of range for nodes array")
           ELSE IF volume6 <= 0
           THEN Raise("ValueError", "Total volume is zero or negative; check elements or degeneracy.")
           ELSE IF ~calculate_inertia
           THEN [kind |-> "ok", elements |-> elements, volume6 |-> volume6,
                 centroid |-> centroid, current |-> Zeros3x3,
                 principal |-> Zeros3x3, axes |-> Zeros3x3]
           ELSE [kind |-> "ok", elements |-> elements, volume6 |-> volume6,
                 centroid |-> centroid, current |-> current,
                 principal |-> [eigh |-> "evals", of |-> current],
                 axes |-> [eigh |-> "evecs", of |-> current]]

(***************************************************************************)
(* pyshape/form.py                                                         *)
(***************************************************************************)
\* np.cross(e_AB, e_BC) of one triangle, e_AB = B - A and e_BC = C - B
FaceCrossAB_BC(nd, row) ==
  Cross(Sub(At(nd, row[2]), At(nd, row[1])), Sub(At(nd, row[3]), At(nd, row[2])))

\* The sum a + b of two vectors of fractions, in lowest terms.
FracAdd(a, b) ==
  Frac([i \in 1..Len(a.num) |-> a.num[i] * b.den + b.num[i] * a.den], a.den * b.den)

\* the fraction n / d of two integers, d # 0, in lowest terms
Ratio(n, d) == IF d < 0 THEN Frac(<<-n>>, -d) ELSE Frac(<<n>>, d)

\* a < b for two fractions
FracLess(a, b) == a.num[1] * b.den < b.num[1] * a.den

\* v v^T, row by row
Outer(v) == [i \in 1..9 |-> v[((i - 1) \div 3) + 1] * v[((i - 1) % 3) + 1]]

\* A face term that is subtracted: -areas[k] * (nk nk^T).
FaceTensor_Negated(v) ==
  LET nm == Norm(v)
  IN  [s \in DOMAIN nm |-> Frac([i \in 1..9 |-> -Outer(v)[i]], nm[s] * s)]

\* A face term that skips the normalisation: areas[k] * (v v^T).
FaceTensor_Unnormalised(v) ==
  LET nm == Norm(v)
  IN  [s \in DOMAIN nm |-> Frac([i \in 1..9 |-> nm[s] * Outer(v)[i]], 1)]

\* areas[k] * (nk @ nk.T), doubled like the areas: with |v| = k sqrt(s) and
\* nk = v / |v| it is (v v^T / (k s)) sqrt(s), a matrix of fractions per
\* radicand.  Where the norm is 0, nk is the zero vector of np.divide's `out`
\* and the term is the zero matrix: the empty sum.
FaceTensor(v) ==
  LET nm == Norm(v)
  IN  [s \in DOMAIN nm |-> Frac(Outer(v), nm[s] * s)]

\* f += ...: the sum of two matrices of radicals
TensorAdd(F, G) ==
  [s \in (DOMAIN F) \cup (DOMAIN G) |->
     IF s \notin DOMAIN G THEN F[s]
     ELSE IF s \notin DOMAIN F THEN G[s]
     ELSE FracAdd(F[s], G[s])]

RECURSIVE TensorSum(_)
TensorSum(s) == IF s = <<>> THEN <<>> ELSE TensorAdd(Head(s), TensorSum(Tail(s)))

\* A test that rejects a mesh as soon as one face has no area.
NoArea_SomeFace(norms) == \E k \in 1..Len(norms) : norms[k] = <<>>

\* `total_area <= 0` for total_area = areas.sum(): a sum of norms is never
\* negative, and is 0 exactly when it has no term.
NoArea(norms) == DOMAIN RadSum(norms) = {}

\* f / total_area as a matrix of fractions, where both are multiples of the
\* same single radical; otherwise the quotient is left as it stands.
Quotient(num, den) ==
  IF DOMAIN num = DOMAIN den /\ Cardinality(DOMAIN den) = 1
  THEN LET s == CHOOSE x \in DOMAIN den : TRUE
       IN  [rational |-> TRUE, m |-> Frac(num[s].num, num[s].den * den[s])]
  ELSE [rational |-> FALSE, num |-> num, den |-> den]

\* the entries of a 3 x 3 matrix off its diagonal
OffDiagonal == {2, 3, 4, 6, 7, 8}

\* np.linalg.eig(f) where f is a diagonal matrix of fractions: the diagonal
\* and the unit vectors.  For any other f the eigenpairs are not evaluated.
Eig(f) ==
  IF f.rational /\ \A i \in OffDiagonal : f.m.num[i] = 0
  THEN [evaluated |-> TRUE,
        vals |-> <<Ratio(f.m.num[1], f.m.den), Ratio(f.m.num[5], f.m.den),
                   Ratio(f.m.num[9], f.m.den)>>,
        vecs |-> <<(<<1, 0, 0>>), (<<0, 1, 0>>), (<<0, 0, 1>>)>>]
  ELSE [evaluated |-> FALSE, of |-> f]

\* The results np.argsort(vals) can give, as 1-based positions: the
\* permutations that put vals in ascending order (the order of equal values
\* is the sort's own).
Argsorts(vals) ==
  {o \in [1..3 -> 1..3] :
     /\ {o[1], o[2], o[3]} = 1..3
     /\ ~FracLess(vals[o[2]], vals[o[1]])
     /\ ~FracLess(vals[o[3]], vals[o[2]])}

\* The indices without the division by f1.
ShapeIndices_Undivided(eigen_values) ==
  LET f1 == eigen_values[1]
      f2 == eigen_values[2]
      f3 == eigen_values[3]
  IN  IF ~FracLess(Ratio(0, 1), f1)
      THEN Raise("ValueError", "largest eigenvalue non-positive; invalid orientation tensor")
      ELSE [kind |-> "ok",
            C |-> f3,
            F |-> Ratio(f1.num[1] * f2.den - f2.num[1] * f1.den, f1.den * f2.den),
            R |-> Ratio(f2.num[1] * f3.den - f3.num[1] * f2.den, f2.den * f3.den)]

\* The end of surface_orientation_tensor, from the sorted eigenvalues on:
\* the test of f1 and C = f3 / f1, F = (f1 - f2) / f1, R = (f2 - f3) / f1.
ShapeIndices(eigen_values) ==
  LET f1 == eigen_values[1]
      f2 == eigen_values[2]
      f3 == eigen_values[3]
  IN  IF ~FracLess(Ratio(0, 1), f1)
      THEN Raise("ValueError", "largest eigenvalue non-positive; invalid orientation tensor")
      ELSE [kind |-> "ok",
            C |-> Ratio(f3.num[1] * f1.den, f3.den * f1.num[1]),
            F |-> Ratio((f1.num[1] * f2.den - f2.num[1] * f1.den) * f1.den,
                        f1.den * f2.den * f1.num[1]),
            R |-> Ratio((f2.num[1] * f3.den - f3.num[1] * f2.den) * f1.den,
                        f2.den * f3.den * f1.num[1])]

\* np.cross(e_AB, e_BC), face by face
FaceVectors(nd, faces) == [k \in 1..Len(faces.rows) |-> FaceCrossAB_BC(nd, faces.rows[k])]

\* np.linalg.norm(v, axis=1)
FaceNorms(v) == [k \in 1..Len(v) |-> Norm(v[k])]

\* The tensor f = (1 / A) sum_k A_k n_k n_k^T of the area vectors v, exactly:
\* the sum and the total area are doubled alike.
OrientationTensor(v) ==
  Quotient(TensorSum([k \in 1..Len(v) |-> FaceTensor(v[k])]), RadSum(FaceNorms(v)))

\* surface_orientation_tensor(nodes, faces) up to np.linalg.eig: what it
\* raises, or the converted faces, the doubled total area, f and its
\* eigenpairs.
OrientationEig(nd, fa) ==
  IF fa.w # 3 THEN Raise("ValueError", "faces must have shape (M, 3)")
  ELSE LET faces == ConvertIndices(fa, Len(nd))
           v == FaceVectors(nd, faces)
           norms == FaceNorms(v)
           f == OrientationTensor(v)
       IN  IF OutOfRange(faces, Len(nd))
           THEN Raise("ValueError", "face indices out of range for nodes array")
           ELSE IF NoArea(norms)
           THEN Raise("ValueError", "total surface area is zero; mesh may be degenerate")
           ELSE [kind |-> "eig", faces |-> faces, total_area2 |-> RadSum(norms), f |-> f,
                 e |-> Eig(f)]

\* The orders np.argsort can return after the decomposition t: those of the
\* eigenvalues where the call gets that far and they are evaluated, any one
\* otherwise.
SortOrders(t) ==
  IF t.kind = "eig" /\ t.e.evaluated THEN Argsorts(t.e.vals) ELSE {<<1, 2, 3>>}

\* surface_orientation_tensor(nodes, faces) from the decomposition t on,
\* where np.argsort returns asc: the descending sort and the indices.  Where
\* np.linalg.eig is not evaluated, the eigenpairs and the indices are those
\* of f, unevaluated.
SortedIndices(t, asc) ==
  IF t.kind = "raise" THEN t
  ELSE IF ~t.e.evaluated
  THEN [kind |-> "ok", faces |-> t.faces, total_area2 |-> t.total_area2, f |-> t.f,
        evaluated |-> FALSE]
  ELSE LET order == <<asc[3], asc[2], asc[1]>>
           eigen_values == [i \in 1..3 |-> t.e.vals[order[i]]]
           eigen_vectors == [i \in 1..3 |-> t.e.vecs[order[i]]]
           ind == ShapeIndices(eigen_values)
       IN  IF ind.kind = "raise" THEN ind
           ELSE [kind |-> "ok", faces |-> t.faces, total_area2 |-> t.total_area2,
                 f |-> t.f, evaluated |-> TRUE, C |-> ind.C, F |-> ind.F, R |-> ind.R,
                 eigen_values |-> eigen_values, eigen_vectors |-> eigen_vectors]

\* What surface_orientation_tensor(nodes, faces) can return or raise.
surface_orientation_tensor(nd, fa) ==
  LET t == OrientationEig(nd, fa)
  IN  {SortedIndices(t, asc) : asc \in SortOrders(t)}

(***************************************************************************)
(* pyshape/form.py: the scalar formulas.  A float is a fraction in lowest  *)
(* terms, [num |-> <<n>>, den |-> d]; a cube root is kept as              *)
(* [cbrt |-> [q |-> q, pi |-> k]], the real cube root of q * pi^k.         *)
(***************************************************************************)
QZero == Ratio(0, 1)

QSub(a, b) == Ratio(a.num[1] * b.den - b.num[1] * a.den, a.den * b.den)

QAdd(a, b) == Ratio(a.num[1] * b.den + b.num[1] * a.den, a.den * b.den)

QMul(a, b) == Ratio(a.num[1] * b.num[1], a.den * b.den)

\* a value returned
Value(x) == [kind |-> "ok", value |-> x]

\* a / b on floats
TrueDivide(a, b) ==
  IF b = QZero THEN Raise("ZeroDivisionError", "float division by zero")
  ELSE Value(Ratio(a.num[1] * b.den, a.den * b.num[1]))

\* x / np.pi, as the product q * pi^k
OverPi(x) == [q |-> x, pi |-> -1]

\* p ** (1.0 / 3.0) of a product p = q * pi^k: a float for p >= 0, and the
\* principal complex root for p < 0
CubeRoot(p) == IF FracLess(p.q, QZero) THEN [complex |-> p] ELSE [cbrt |-> p]

\* r * a for a cube root r and a float a
RootTimes(r, a) == [cbrt |-> [q |-> QMul(r.cbrt.q, QMul(a, QMul(a, a))), pi |-> r.cbrt.pi]]

\* x / r for a float x and a cube root r
DivideByRoot(x, r) ==
  IF r.cbrt.q = QZero THEN Raise("ZeroDivisionError", "float division by zero")
  ELSE Value([cbrt |-> [q |-> TrueDivide(QMul(x, QMul(x, x)), r.cbrt.q).value,
                        pi |-> -r.cbrt.pi]])

\* float(x): a complex number is refused
ToFloat(x) ==
  IF "complex" \in DOMAIN x
  THEN Raise("TypeError", "float() argument must be a string or a real number")
  ELSE Value(x)

\* the tuple (a, b) of two evaluations, the first failure if one fails
Pair(a, b) ==
  IF a.kind = "raise" THEN a
  ELSE IF b.kind = "raise" THEN b
  ELSE Value(<<a.value, b.value>>)

\* convexity(volume, volume_convex_hull)
convexity(volume, volume_convex_hull) ==
  IF ~FracLess(QZero, volume_convex_hull)
  THEN Raise("ValueError", "volume_convex_hull must be > 0")
  ELSE IF FracLess(volume, QZero)
  THEN Raise("ValueError", "volume must be >= 0")
  ELSE TrueDivide(volume, volume_convex_hull)

\* A sphericity that accepts every surface area.
sphericity_wadell_AnyArea(volume, area) ==
  IF FracLess(volume, QZero)
  THEN Raise("ValueError", "volume must be >= 0")
  ELSE DivideByRoot(QMul(Ratio(6, 1), volume),
                    RootTimes(CubeRoot(OverPi(QMul(Ratio(6, 1), volume))), area))

\* sphericity_wadell(volume, surface_area):
\* 6.0 * volume / (((6.0 * volume / np.pi) ** (1.0 / 3.0)) * surface_area)
sphericity_wadell(volume, area) ==
  IF FracLess(volume, QZero)
  THEN Raise("ValueError", "volume must be >= 0")
  ELSE IF ~FracLess(QZero, area)
  THEN Raise("ValueError", "surface_area must be > 0")
  ELSE DivideByRoot(QMul(Ratio(6, 1), volume),
                    RootTimes(CubeRoot(OverPi(QMul(Ratio(6, 1), volume))), area))

\* sphericity_krumbein(S, I, L): ((I * S) / (L * L)) ** (1.0 / 3.0)
sphericity_krumbein(S, I, L) ==
  IF ~FracLess(QZero, L) \/ FracLess(I, QZero) \/ FracLess(S, QZero)
  THEN Raise("ValueError", "dimensions must be non-negative and L > 0")
  ELSE LET ratio == TrueDivide(QMul(I, S), QMul(L, L))
       IN  IF ratio.kind = "raise" THEN ratio
           ELSE ToFloat(CubeRoot([q |-> ratio.value, pi |-> 0]))

\* form_parameters_kong_and_fonseca(S, I, L)
form_parameters_kong_and_fonseca(S, I, L) ==
  Pair(IF I # QZero THEN TrueDivide(QSub(I, S), I) ELSE Value(QZero),
       IF L # QZero THEN TrueDivide(QSub(L, I), L) ELSE Value(QZero))

\* The Potticary parameters without the test of the denominator.
form_parameters_potticary_et_al_Unguarded(S, I, L) ==
  Pair(TrueDivide(QMul(Ratio(2, 1), QSub(I, S)), QAdd(QAdd(L, I), S)),
       TrueDivide(QSub(L, I), QAdd(QAdd(L, I), S)))

\* form_parameters_potticary_et_al(S, I, L)
form_parameters_potticary_et_al(S, I, L) ==
  LET denom == QAdd(QAdd(L, I), S)
  IN  IF denom = QZero THEN Value(<<QZero, QZero>>)
      ELSE Pair(TrueDivide(QMul(Ratio(2, 1), QSub(I, S)), denom),
                TrueDivide(QSub(L, I), denom))

\* form_parameters_zingg(S, I, L)
form_parameters_zingg(S, I, L) ==
  Pair(IF I # QZero THEN TrueDivide(S, I) ELSE Value(QZero),
       IF L # QZero THEN TrueDivide(I, L) ELSE Value(QZero))

\* form_functions_1(surface_area, volume, volume_convex_hull)
form_functions_1(area, volume, volume_convex_hull) ==
  Pair(convexity(volume, volume_convex_hull), sphericity_wadell(volume, area))

\* A bundle that lists the Kong-Fonseca pair before the Potticary pair.
form_functions_2_KongFirst(S, I, L) ==
  LET spK == sphericity_krumbein(S, I, L)
      P == form_parameters_potticary_et_al(S, I, L)
      K == form_parameters_kong_and_fonseca(S, I, L)
      Z == form_parameters_zingg(S, I, L)
  IN  IF spK.kind = "raise" THEN spK
      ELSE Value(<<spK.value, K.value[1], K.value[2], P.value[1], P.value[2],
                   Z.value[1], Z.value[2]>>)

\* form_functions_2(S, I, L): spK, flP, elP, flK, elK, SIZ, ILZ
form_functions_2(S, I, L) ==
  LET spK == sphericity_krumbein(S, I, L)
      P == form_parameters_potticary_et_al(S, I, L)
      K == form_parameters_kong_and_fonseca(S, I, L)
      Z == form_parameters_zingg(S, I, L)
  IN  IF spK.kind = "raise" THEN spK
      ELSE IF P.kind = "raise" THEN P
      ELSE IF K.kind = "raise" THEN K
      ELSE IF Z.kind = "raise" THEN Z
      ELSE Value(<<spK.value, P.value[1], P.value[2], K.value[1], K.value[2],
                   Z.value[1], Z.value[2]>>)

(***************************************************************************)
(* The meshes of the model.                                                *)
(***************************************************************************)
\* The node arrays are the prefixes of two lists of cube corners: the unit
\* square of the tests with an apex above it (its first four nodes are
\* coplanar), and the unit right tetrahedron of the tests with the far corner.
NodePools ==
  {<<(<<0, 0, 0>>), (<<1, 0, 0>>), (<<1, 1, 0>>), (<<0, 1, 0>>), (<<0, 0, 1>>)>>,
   <<(<<0, 0, 0>>), (<<1, 0, 0>>), (<<0, 1, 0>>), (<<0, 0, 1>>), (<<1, 1, 1>>)>>}

\* A strip over s: row r holds s[r], ..., s[r + w - 1], so that consecutive
\* rows share w - 1 nodes and alternate in orientation.
Strip(s, w) ==
  [w |-> w, rows |-> [r \in 1..(Len(s) - w + 1) |-> [c \in 1..w |-> s[r + c - 1]]]]

\* The index arrays a caller passes over N nodes: no row, or a strip of
\* 1..MaxRows rows of valid 0-based indices with every index moved by -1
\* (below the range), 0, or 1 (1-based, or above the range).
InitIndexArray(N, w) ==
  \/ idx = [w |-> w, rows |-> <<>>]
  \/ \E m \in 1..MaxRows : \E s \in [1..(m + w - 1) -> 0..(N - 1)] : \E k \in -1..1 :
       idx = Shift(Strip(s, w), k)

\* no call has returned yet
NoResult == [kind |-> "none"]

\* The state of the loader while the mesh part runs, and the reverse.
StlIdle ==
  /\ HAS_TRIMESH = FALSE
  /\ exists = FALSE /\ data = <<>> /\ merge = FALSE /\ lpc = "idle"
  /\ triangles = "None" /\ lines = <<>> /\ tris = <<>> /\ cur = <<>> /\ out = NoResult

MeshIdle ==
  /\ nodes = <<>> /\ idx = [w |-> 3, rows |-> <<>>] /\ call = "idle" /\ res = NoResult
  /\ args = <<>>

InitMesh ==
  /\ \E pool \in NodePools : \E n \in 1..Len(pool) : nodes = SubSeq(pool, 1, n)
  /\ \E w \in {3, 4} : InitIndexArray(Len(nodes), w)
  /\ call = "none"
  /\ res = NoResult
  /\ args = <<>>
  /\ StlIdle

\* A conversion in place, `faces -= 1`, which the caller's array would show.
CallersIndices_InPlace(a, N) == ConvertIndices(a, N)

\* The caller's index array after a call: `faces = faces - 1` and
\* `elements = elements - 1` bind the name to a new array, and nothing else
\* writes to the array.
CallersIndices(a, N) == a

\* the caller calls surface_area(nodes, idx) on its (M, 3) array
CallSurfaceArea ==
  /\ call = "none"
  /\ idx.w = 3
  /\ call' = "surface_area"
  /\ res' = surface_area(nodes, idx)
  /\ idx' = CallersIndices(idx, Len(nodes))
  /\ UNCHANGED <<nodes, args>>
  /\ UNCHANGED stlVars

\* the caller calls volume_centroid_inertia_tensor(nodes, idx, calc) on its
\* (M, 4) array
CallVolume(calc) ==
  /\ call = "none"
  /\ idx.w = 4
  /\ call' = IF calc THEN "volume_inertia" ELSE "volume"
  /\ res' = volume_centroid_inertia_tensor(nodes, idx, calc)
  /\ idx' = CallersIndices(idx, Len(nodes))
  /\ UNCHANGED <<nodes, args>>
  /\ UNCHANGED stlVars

\* the caller calls surface_orientation_tensor(nodes, idx) on its (M, 3) array
CallOrientation ==
  /\ call = "none"
  /\ idx.w = 3
  /\ call' = "orientation"
  /\ res' \in surface_orientation_tensor(nodes, idx)
  /\ idx' = CallersIndices(idx, Len(nodes))
  /\ UNCHANGED <<nodes, args>>
  /\ UNCHANGED stlVars

NextMesh ==
  \/ CallSurfaceArea
  \/ \E calc \in BOOLEAN : CallVolume(calc)
  \/ CallOrientation

SpecMesh == InitMesh /\ [][NextMesh]_vars

(***************************************************************************)
(* The calls of the scalar formulas.                                       *)
(***************************************************************************)
\* the floats a caller passes: the halves from -1 to MaxScalar
Scalars == {Ratio(n, d) : n \in -1..MaxScalar, d \in 1..2}

InitForm ==
  /\ args \in [1..3 -> Scalars]
  /\ nodes = <<>> /\ idx = [w |-> 3, rows |-> <<>>]
  /\ call = "none"
  /\ res = NoResult
  /\ StlIdle

\* a call of `name` on the arguments returns or raises r
Returns(name, r) ==
  /\ call = "none"
  /\ call' = name
  /\ res' = r
  /\ UNCHANGED <<nodes, idx, args>>
  /\ UNCHANGED stlVars

\* convexity(volume, volume_convex_hull)
CallConvexity == Returns("convexity", convexity(args[1], args[2]))

\* sphericity_wadell(volume, surface_area)
CallWadell == Returns("sphericity_wadell", sphericity_wadell(args[1], args[2]))

\* sphericity_krumbein(S, I, L)
CallKrumbein == Returns("sphericity_krumbein", sphericity_krumbein(args[1], args[2], args[3]))

\* form_parameters_kong_and_fonseca(S, I, L)
CallKongFonseca ==
  Returns("kong_and_fonseca", form_parameters_kong_and_fonseca(args[1], args[2], args[3]))

\* form_parameters_potticary_et_al(S, I, L)
CallPotticary ==
  Returns("potticary_et_al", form_parameters_potticary_et_al(args[1], args[2], args[3]))

\* form_parameters_zingg(S, I, L)
CallZingg == Returns("zingg", form_parameters_zingg(args[1], args[2], args[3]))

\* form_functions_1(surface_area, volume, volume_convex_hull)
CallFormFunctions1 == Returns("form_functions_1", form_functions_1(args[1], args[2], args[3]))

\* form_functions_2(S, I, L)
CallFormFunctions2 == Returns("form_functions_2", form_functions_2(args[1], args[2], args[3]))

\* surface_orientation_tensor from its sorted eigenvalues on: the arguments
\* are f1 >= f2 >= f3, as the descending sort leaves them
IndicesOfEigenvalues ==
  /\ ~FracLess(args[1], args[2]) /\ ~FracLess(args[2], args[3])
  /\ Returns("indices", ShapeIndices(args))

NextForm ==
  \/ CallConvexity
  \/ CallWadell
  \/ CallKrumbein
  \/ CallKongFonseca
  \/ CallPotticary
  \/ CallZingg
  \/ CallFormFunctions1
  \/ CallFormFunctions2
  \/ IndicesOfEigenvalues

SpecForm == InitForm /\ [][NextForm]_vars

(***************************************************************************)
(* Claims about the index conversion and the tetrahedral sums (SpecMesh).  *)
(***************************************************************************)
\* the caller's array holds at least one index, all of them valid 0-based
ValidZeroBased == Size(idx) # 0 /\ Entries(idx) \subseteq 0..(Len(nodes) - 1)

\* some row references node 0 and some row references node N-1
EndsReferenced == 0 \in Entries(idx) /\ (Len(nodes) - 1) \in Entries(idx)

\* C1 as stated: for every mesh with valid 0-based faces, surface_area of the
\* faces moved to 1-based does not raise and returns the value surface_area
\* returned for the 0-based faces, also when node 0 or node N-1 is unreferenced.
C1_AnyMesh ==
  (call = "surface_area" /\ idx.w = 3 /\ ValidZeroBased)
    => LET r == surface_area(nodes, Shift(idx, 1))
       IN  r.kind = "ok" /\ res.kind = "ok" /\ r.area2 = res.area2

\* C1, amended: for every mesh with valid 0-based faces in which node 0 and
\* node N-1 are both referenced by some face, surface_area of the faces moved
\* to 1-based does not raise and returns the value returned for the 0-based faces.
C1_EndsReferenced ==
  (call = "surface_area" /\ idx.w = 3 /\ ValidZeroBased /\ EndsReferenced)
    => LET r == surface_area(nodes, Shift(idx, 1))
       IN  r.kind = "ok" /\ res.kind = "ok" /\ r.area2 = res.area2

\* two faces over referenced end nodes, with a non-zero area
C1_Witness ==
  /\ call = "surface_area" /\ idx.w = 3 /\ ValidZeroBased /\ EndsReferenced
  /\ Len(idx.rows) = 2 /\ Len(nodes) >= 4
  /\ res.kind = "ok" /\ DOMAIN res.area2 # {}
  /\ surface_area(nodes, Shift(idx, 1)).faces = idx

\* the function a call is of, by the columns it wants
IndexedCall ==
  \/ call \in {"surface_area", "orientation"} /\ idx.w = 3
  \/ call \in {"volume", "volume_inertia"} /\ idx.w = 4

RangeError ==
  /\ res.kind = "raise" /\ res.type = "ValueError"
  /\ res.msg \in {"face indices out of range for nodes array",
                  "element indices out of range for nodes array"}

\* the index array a successful call used
Used == IF call \in {"volume", "volume_inertia"} THEN res.elements ELSE res.faces

\* C2: a non-empty index array over N nodes is accepted exactly when all its
\* indices lie in [0, N) or its minimum is 1 and its maximum N; in the second
\* case every index is used decremented by one, in the first unchanged; any
\* other array raises the index-range ValueError and nothing is computed.
C2_AcceptedExactly ==
  (IndexedCall /\ Size(idx) # 0)
    => LET N == Len(nodes)
           zero == Entries(idx) \subseteq 0..(N - 1)
           one == Min(Entries(idx)) = 1 /\ Max(Entries(idx)) = N
       IN  /\ RangeError <=> ~(zero \/ one)
           /\ RangeError => DOMAIN res = {"kind", "type", "msg"}
           /\ (res.kind = "ok" /\ one) => Used = Shift(idx, -1)
           /\ (res.kind = "ok" /\ zero) => Used = idx

\* a 1-based array was converted and used
C2_Witness ==
  /\ call = "volume_inertia" /\ idx.w = 4 /\ Len(idx.rows) = 2
  /\ Min(Entries(idx)) = 1 /\ Max(Entries(idx)) = Len(nodes)
  /\ res.kind = "ok" /\ res.elements = Shift(idx, -1)

\* C3 as stated: for every mesh with valid 0-based elements and a positive
\* volume, the call on the elements moved to 1-based returns the same volume
\* and centroid, for both values of calculate_inertia.
C3_AnyMesh ==
  (call \in {"volume", "volume_inertia"} /\ idx.w = 4 /\ ValidZeroBased /\ res.kind = "ok")
    => LET r == volume_centroid_inertia_tensor(nodes, Shift(idx, 1), call = "volume_inertia")
       IN  r.kind = "ok" /\ r.volume6 = res.volume6 /\ r.centroid = res.centroid

\* C3, amended: for every mesh with valid 0-based elements in which node 0
\* and node N-1 are both referenced and whose volume is positive, the call on
\* the elements moved to 1-based returns the same volume and centroid, for
\* both values of calculate_inertia.
C3_EndsReferenced ==
  (call \in {"volume", "volume_inertia"} /\ idx.w = 4 /\ ValidZeroBased
     /\ EndsReferenced /\ res.kind = "ok")
    => LET r == volume_centroid_inertia_tensor(nodes, Shift(idx, 1), call = "volume_inertia")
       IN  r.kind = "ok" /\ r.volume6 = res.volume6 /\ r.centroid = res.centroid

\* two tetrahedra over five nodes, both end nodes referenced
C3_Witness ==
  /\ call = "volume" /\ idx.w = 4 /\ ValidZeroBased /\ EndsReferenced
  /\ Len(idx.rows) = 2 /\ Len(nodes) = 5 /\ res.kind = "ok"
  /\ volume_centroid_inertia_tensor(nodes, Shift(idx, 1), FALSE).elements = idx

\* the 3x3 determinant with rows u, v, w, expanded along the first row
Det3(u, v, w) ==
  u[1] * (v[2] * w[3] - v[3] * w[2]) - u[2] * (v[1] * w[3] - v[3] * w[1])
  + u[3] * (v[1] * w[2] - v[2] * w[1])

\* the indices a call uses, by the rule of C2
Normalised ==
  IF Size(idx) # 0 /\ Min(Entries(idx)) = 1 /\ Max(Entries(idx)) = Len(nodes)
  THEN Shift(idx, -1) ELSE idx

\* the sum over the tetrahedra of |(a-d) . ((b-d) x (c-d))|
AbsTripleSum ==
  LET rows == Normalised.rows
  IN  SumSeq([t \in 1..Len(rows) |->
                Abs(Det3(Sub(At(nodes, rows[t][1]), At(nodes, rows[t][4])),
                         Sub(At(nodes, rows[t][2]), At(nodes, rows[t][4])),
                         Sub(At(nodes, rows[t][3]), At(nodes, rows[t][4]))))])

VolumeError ==
  /\ res.kind = "raise" /\ res.type = "ValueError"
  /\ res.msg = "Total volume is zero or negative; check elements or degeneracy."

\* C4: the volume returned is the sum over the tetrahedra of
\* |(a-d) . ((b-d) x (c-d))| / 6; the volume error is raised exactly when that
\* sum is <= 0 (no element, or only degenerate ones); a returned volume is > 0,
\* and a tetrahedron of reversed orientation adds to the sum.
C4_VolumeIsAbsSum ==
  (call \in {"volume", "volume_inertia"} /\ idx.w = 4 /\ ~RangeError)
    => /\ VolumeError <=> AbsTripleSum <= 0
       /\ res.kind = "ok" <=> AbsTripleSum > 0
       /\ res.kind = "ok" => res.volume6 = AbsTripleSum /\ res.volume6 > 0

\* a strip of two tetrahedra on the same four nodes: the second is the first
\* with its orientation reversed, and the volume is twice the first's
C4_Witness ==
  /\ call = "volume" /\ idx.w = 4 /\ Len(idx.rows) = 2 /\ res.kind = "ok"
  /\ idx.rows[2][4] = idx.rows[1][1]
  /\ LET d == At(nodes, Normalised.rows[1][4])
         a == Sub(At(nodes, Normalised.rows[1][1]), d)
         b == Sub(At(nodes, Normalised.rows[1][2]), d)
         c == Sub(At(nodes, Normalised.rows[1][3]), d)
         e == At(nodes, Normalised.rows[2][4])
         a2 == Sub(At(nodes, Normalised.rows[2][1]), e)
         b2 == Sub(At(nodes, Normalised.rows[2][2]), e)
         c2 == Sub(At(nodes, Normalised.rows[2][3]), e)
     IN  /\ Det3(a, b, c) # 0
         /\ Det3(a2, b2, c2) = -Det3(a, b, c)
         /\ res.volume6 = 2 * Abs(Det3(a, b, c))

\* C5: with calculate_inertia false the call returns the volume and centroid
\* it returns with calculate_inertia true, the centroid being the
\* volume-weighted mean of the tetrahedra's (a+b+c+d)/4, and three all-zero
\* 3x3 matrices.
C5_NoInertia ==
  (call = "volume" /\ idx.w = 4)
    => LET r == volume_centroid_inertia_tensor(nodes, idx, TRUE)
           rows == Normalised.rows
           W(t) == Abs(Det3(Sub(At(nodes, rows[t][1]), At(nodes, rows[t][4])),
                            Sub(At(nodes, rows[t][2]), At(nodes, rows[t][4])),
                            Sub(At(nodes, rows[t][3]), At(nodes, rows[t][4]))))
           VSum(t, ax) == At(nodes, rows[t][1])[ax] + At(nodes, rows[t][2])[ax]
                          + At(nodes, rows[t][3])[ax] + At(nodes, rows[t][4])[ax]
           Zero == [num |-> [i \in 1..9 |-> 0], den |-> 1]
       IN  /\ r.kind = res.kind
           /\ res.kind = "ok" =>
                /\ r.volume6 = res.volume6 /\ r.centroid = res.centroid
                /\ \A ax \in 1..3 :
                     res.centroid.num[ax] * 4 * SumSeq([t \in 1..Len(rows) |-> W(t)])
                       = res.centroid.den * SumSeq([t \in 1..Len(rows) |-> W(t) * VSum(t, ax)])
                /\ res.current = Zero /\ res.principal = Zero /\ res.axes = Zero

\* two tetrahedra of different volumes, and a tensor that is not zero when asked for
C5_Witness ==
  /\ call = "volume" /\ idx.w = 4 /\ Len(idx.rows) = 2 /\ res.kind = "ok"
  /\ TetVolume6(nodes, res.elements.rows[1]) # TetVolume6(nodes, res.elements.rows[2])
  /\ TetVolume6(nodes, res.elements.rows[1]) # 0
  /\ TetVolume6(nodes, res.elements.rows[2]) # 0
  /\ volume_centroid_inertia_tensor(nodes, idx, TRUE).current # res.current

(***************************************************************************)
(* Numbers of the loader.  A finite binary floating-point value is kept    *)
(* exactly as m * 2^e with m odd, or m = 0 and e = 0; the other values of  *)
(* a float are the infinities and not-a-number.                            *)
(***************************************************************************)
RECURSIVE Pow(_, _)
Pow(b, n) == IF n = 0 THEN 1 ELSE b * Pow(b, n - 1)

RECURSIVE Dyadic(_, _)
Dyadic(m, e) ==
  IF m = 0 THEN [m |-> 0, e |-> 0]
  ELSE IF m % 2 = 0 THEN Dyadic(m \div 2, e + 1)
  ELSE [m |-> m, e |-> e]

\* One little-endian IEEE-754 binary32, b[1] the lowest byte, widened to
\* float64 (`.astype(np.float64)`, exact).  The fields are cut from the bytes
\* one by one: sign 1 bit, exponent 8 bits, fraction 23 bits.
Float32(b) ==
  LET sign == b[4] \div 128
      expo == (b[4] % 128) * 2 + (b[3] \div 128)
      frac == (b[3] % 128) * 65536 + b[2] * 256 + b[1]
      sgn(x) == IF sign = 1 THEN -x ELSE x
  IN  IF expo = 255
      THEN (IF frac # 0 THEN [special |-> "nan"]
            ELSE IF sign = 1 THEN [special |-> "-inf"] ELSE [special |-> "inf"])
      ELSE IF expo = 0 THEN Dyadic(sgn(frac), -149)
      ELSE Dyadic(sgn(8388608 + frac), expo - 150)

(***************************************************************************)
(* Text, as sequences of character codes.                                  *)
(***************************************************************************)
\* str.isspace for a character below 128
IsSpace(c) == c \in {9, 10, 11, 12, 13, 28, 29, 30, 31, 32}

\* the line boundaries of str.splitlines below 128 (\r\n is one boundary)
IsLineBreak(c) == c \in {10, 11, 12, 13, 28, 29, 30}

\* str.lower for a character below 128
LowerChar(c) == IF c \in 65..90 THEN c + 32 ELSE c

\* data.decode('utf-8', errors='ignore') for data in which no byte from 128
\* up starts or continues a well-formed multi-byte sequence: every such byte
\* is dropped, the others are the characters.
Utf8Ignore(bytes) == SelectSeq(bytes, LAMBDA b : b < 128)

\* the k-th smallest member of a set of positions
Nth(S, k) == CHOOSE i \in S : Cardinality({j \in S : j < i}) = k - 1

\* text.splitlines(): a boundary ends at i when text[i] is a line break that
\* is not the \r of a \r\n; the line before it starts after the boundary
\* before and ends before the \r of a \r\n.  What follows the last boundary
\* is a line when it is not empty.
SplitLines(text) ==
  LET n == Len(text)
      ends == {i \in 1..n : IsLineBreak(text[i])
                            /\ ~(text[i] = 13 /\ i < n /\ text[i + 1] = 10)}
      count == Cardinality(ends)
      last == IF count = 0 THEN 0 ELSE Nth(ends, count)
      from(k) == IF k = 1 THEN 1 ELSE Nth(ends, k - 1) + 1
      to(k) == LET i == Nth(ends, k)
               IN  IF text[i] = 10 /\ i > from(k) /\ text[i - 1] = 13 THEN i - 2 ELSE i - 1
  IN  [k \in 1..count |-> SubSeq(text, from(k), to(k))]
        \o (IF last < n THEN <<SubSeq(text, last + 1, n)>> ELSE <<>>)

\* line.strip(): from the first to the last character that is no whitespace
StripLine(t) ==
  LET kept == {i \in 1..Len(t) : ~IsSpace(t[i])}
  IN  IF kept = {} THEN <<>> ELSE SubSeq(t, Min(kept), Max(kept))

\* line.split(): the maximal runs of characters that are no whitespace
SplitTokens(t) ==
  LET n == Len(t)
      starts == {i \in 1..n : ~IsSpace(t[i]) /\ (i = 1 \/ IsSpace(t[i - 1]))}
      stops == {i \in 1..n : ~IsSpace(t[i]) /\ (i = n \/ IsSpace(t[i + 1]))}
  IN  [k \in 1..Cardinality(starts) |-> SubSeq(t, Nth(starts, k), Nth(stops, k))]

\* line.lower()
LowerLine(t) == [i \in 1..Len(t) |-> LowerChar(t[i])]

\* "vertex"
VertexWord == <<118, 101, 114, 116, 101, 120>>

\* s.startswith(prefix)
StartsWith(t, prefix) == Len(t) >= Len(prefix) /\ SubSeq(t, 1, Len(prefix)) = prefix

IsDigit(c) == c \in 48..57

RECURSIVE DigitsValue(_)
DigitsValue(t) == IF t = <<>> THEN 0 ELSE DigitsValue(SubSeq(t, 1, Len(t) - 1)) * 10 + (t[Len(t)] - 48)

\* what float() raises on a token that is no number
NotAFloat == Raise("ValueError", "could not convert string to float")

IsPowerOfTwo(d) == \E j \in 0..30 : d = Pow(2, j)

\* float(tok) for a token written as [sign] digits [. digits] or [sign] . digits:
\* the value, or the ValueError raised.  A decimal that is no binary fraction is kept
\* as the fraction it rounds from.  The other spellings float() accepts
\* (exponents, inf, nan, underscores) are not in the model's files.
ParseFloat(tok) ==
  LET signed == tok # <<>> /\ Head(tok) \in {43, 45}
      neg == signed /\ Head(tok) = 45
      body == IF signed THEN Tail(tok) ELSE tok
      dots == {i \in 1..Len(body) : body[i] = 46}
      dot == IF dots = {} THEN Len(body) + 1 ELSE Min(dots)
      whole == SubSeq(body, 1, dot - 1)
      part == SubSeq(body, dot + 1, Len(body))
      wellFormed == /\ Cardinality(dots) <= 1
                    /\ \A i \in 1..Len(whole) : IsDigit(whole[i])
                    /\ \A i \in 1..Len(part) : IsDigit(part[i])
                    /\ Len(whole) + Len(part) > 0
      num == DigitsValue(whole \o part)
      den == Pow(10, Len(part))
      g == Gcd(num, den)
      n == IF neg THEN -(num \div g) ELSE num \div g
      d == den \div g
  IN  IF ~wellFormed THEN NotAFloat
      ELSE IF IsPowerOfTwo(d)
      THEN Dyadic(n, -(CHOOSE j \in 0..30 : d = Pow(2, j)))
      ELSE [nearest |-> <<n, d>>]

(***************************************************************************)
(* pyshape/io.py: the decoders.                                            *)
(***************************************************************************)
\* the bytes before the first facet: an 80-byte header and the count
BinaryHeaderLen == 84

\* the offset of the triangle count
CountOffset == 80

\* the bytes of one facet: normal (3 f4), v (3x3 f4), attr (u2)
FacetSize == 50

\* the offset of the field v in a facet, after the normal
FacetVertexOffset == 12

\* data[offset : offset + n], offset 0-based
Slice(bytes, offset, n) == SubSeq(bytes, offset + 1, offset + n)

\* struct.unpack_from('<I', data, offset): the unsigned 32-bit value, kept as
\* its two 16-bit halves (hi * 65536 + lo)
UInt32(bytes, offset) ==
  [hi |-> bytes[offset + 4] * 256 + bytes[offset + 3],
   lo |-> bytes[offset + 2] * 256 + bytes[offset + 1]]

\* A size test that lets extra bytes follow the declared facets.
SizeMatches_AtLeast(len, n) == n.hi = 0 /\ len >= BinaryHeaderLen + FacetSize * n.lo

\* `len(data) == 84 + 50 * n_tri`.  A file of the model is far shorter than
\* 84 + 50 * 65536 bytes, so no count with a non-zero high half matches.
SizeMatches(len, n) == n.hi = 0 /\ len = BinaryHeaderLen + FacetSize * n.lo

\* The field read at the start of the facet, where the normal lies.
FacetVertices_AtNormal(rec) ==
  [j \in 1..3 |-> [c \in 1..3 |-> Float32(Slice(rec, 12 * (j - 1) + 4 * (c - 1), 4))]]

\* recs['v'] of one facet record: three vertices of three little-endian float32
FacetVertices(rec) ==
  [j \in 1..3 |->
     [c \in 1..3 |->
        Float32(Slice(rec, FacetVertexOffset + 12 * (j - 1) + 4 * (c - 1), 4))]]

\* _parse_stl_binary(data): the (T, 3, 3) array, or the error raised
_parse_stl_binary(bytes) ==
  IF Len(bytes) < BinaryHeaderLen THEN Raise("ValueError", "Binary STL too small")
  ELSE LET n_tri == UInt32(bytes, CountOffset)
       IN  IF ~SizeMatches(Len(bytes), n_tri)
           THEN Raise("ValueError", "Binary STL size does not match triangle count")
           ELSE [kind |-> "ok",
                 triangles |->
                   [i \in 1..n_tri.lo |->
                      FacetVertices(Slice(bytes, BinaryHeaderLen + FacetSize * (i - 1),
                                          FacetSize))]]

\* `line.lower().startswith('vertex')`
IsVertexLine(line) == StartsWith(LowerLine(line), VertexWord)

\* One pass of the loop of _parse_stl_ascii over a line: st holds the lists
\* tris and cur before the line, the value those after it.
ScanLine(raw, st) ==
  LET line == StripLine(raw)
      parts == SplitTokens(line)
      xyz == [c \in 1..3 |-> ParseFloat(parts[c + 1])]
      appended == IF Len(parts) >= 4 THEN Append(st.cur, xyz) ELSE st.cur
  IN  IF line = <<>> THEN st
      ELSE IF ~IsVertexLine(line) THEN st
      ELSE IF Len(parts) >= 4 /\ (\E c \in 1..3 : xyz[c] = NotAFloat) THEN st
      ELSE IF Len(appended) = 3
      THEN [tris |-> Append(st.tris, appended), cur |-> <<>>]
      ELSE [tris |-> st.tris, cur |-> appended]

RECURSIVE ScanLines(_, _)
ScanLines(ls, st) == IF ls = <<>> THEN st ELSE ScanLines(Tail(ls), ScanLine(Head(ls), st))

\* _parse_stl_ascii(text): the (T, 3, 3) array, or the error raised
_parse_stl_ascii(text) ==
  LET st == ScanLines(SplitLines(text), [tris |-> <<>>, cur |-> <<>>])
  IN  IF st.tris = <<>> THEN Raise("ValueError", "No triangles found in ASCII STL")
      ELSE [kind |-> "ok", triangles |-> st.tris]

(***************************************************************************)
(* pyshape/io.py: the vertices.                                            *)
(***************************************************************************)
\* the default of the argument decimals
Decimals == 12

RECURSIVE BitLength(_)
BitLength(n) == IF n = 0 THEN 0 ELSE 1 + BitLength(n \div 2)

\* the place of the leading bit of m * 2^e
TopBit(v) == BitLength(Abs(v.m)) + v.e

\* |a| < |b| for finite non-zero values: by the leading bits, and between
\* values with the same leading bit by the mantissas on a common exponent
AbsLess(a, b) ==
  IF TopBit(a) # TopBit(b) THEN TopBit(a) < TopBit(b)
  ELSE LET e == IF a.e < b.e THEN a.e ELSE b.e
       IN  Abs(a.m) * Pow(2, a.e - e) < Abs(b.m) * Pow(2, b.e - e)

\* a < b for finite values
ValueLess(a, b) ==
  IF a.m < 0 /\ b.m < 0 THEN AbsLess(b, a)
  ELSE IF a.m > 0 /\ b.m > 0 THEN AbsLess(a, b)
  ELSE a.m < b.m

\* np.round(x, decimals) of a finite value: x itself when x * 10^decimals is
\* an integer, 0 when |x| < 2^-41 < 0.5 * 10^-12; any other rounding is left
\* unevaluated, a value of its own.
Round(v, decimals) ==
  IF v.e >= -decimals THEN v
  ELSE IF decimals = 12 /\ TopBit(v) <= -41 THEN [m |-> 0, e |-> 0]
  ELSE [m |-> v.m, e |-> v.e, rounded |-> decimals]

\* the order of np.unique on the rows viewed as records (f0, f1, f2)
RowLess(p, q) ==
  \/ ValueLess(p[1], q[1])
  \/ p[1] = q[1] /\ ValueLess(p[2], q[2])
  \/ p[1] = q[1] /\ p[2] = q[2] /\ ValueLess(p[3], q[3])

RECURSIVE SortRows(_)
SortRows(S) ==
  IF S = {} THEN <<>>
  ELSE LET least == CHOOSE p \in S : \A q \in S \ {p} : RowLess(p, q)
       IN  <<least>> \o SortRows(S \ {least})

\* A grouping of the rows as they are, without the rounding.
_unique_rows_tol_Unrounded(points, decimals) ==
  LET unique == SortRows({points[i] : i \in 1..Len(points)})
      inv == [i \in 1..Len(points) |->
                (CHOOSE k \in 1..Len(unique) : unique[k] = points[i]) - 1]
  IN  [nodes |-> unique, inv |-> inv]

\* An inverse index that counts the unique rows from 1.
_unique_rows_tol_FromOne(points, decimals) ==
  LET ar == [i \in 1..Len(points) |-> [c \in 1..3 |-> Round(points[i][c], decimals)]]
      unique == SortRows({ar[i] : i \in 1..Len(points)})
      first == [k \in 1..Len(unique) |-> Min({i \in 1..Len(points) : ar[i] = unique[k]})]
      inv == [i \in 1..Len(points) |-> CHOOSE k \in 1..Len(unique) : unique[k] = ar[i]]
  IN  [nodes |-> [k \in 1..Len(unique) |-> points[first[k]]], inv |-> inv]

\* _unique_rows_tol(points, decimals): the rows a[idx] of the first
\* occurrences, in the sorted order of the rounded rows, and the inverse
\* index (0-based) of every point
_unique_rows_tol(points, decimals) ==
  LET ar == [i \in 1..Len(points) |-> [c \in 1..3 |-> Round(points[i][c], decimals)]]
      unique == SortRows({ar[i] : i \in 1..Len(points)})
      first == [k \in 1..Len(unique) |-> Min({i \in 1..Len(points) : ar[i] = unique[k]})]
      inv == [i \in 1..Len(points) |->
                (CHOOSE k \in 1..Len(unique) : unique[k] = ar[i]) - 1]
  IN  [nodes |-> [k \in 1..Len(unique) |-> points[first[k]]], inv |-> inv]

\* A reshape that fills the rows column by column.
Rows3_ByColumn(flat) ==
  LET T == Len(flat) \div 3
  IN  [t \in 1..T |-> [k \in 1..3 |-> flat[T * (k - 1) + t]]]

\* a.reshape(-1, 3) of a flat array: rows of three
Rows3(flat) == [t \in 1..(Len(flat) \div 3) |-> [k \in 1..3 |-> flat[3 * (t - 1) + k]]]

\* triangles.reshape(-1, 3): the 3T vertices in file order
Vertices(tri) == [i \in 1..(3 * Len(tri)) |-> tri[((i - 1) \div 3) + 1][((i - 1) % 3) + 1]]

\* An end of load_stl that merges the vertices whatever the argument says.
Mesh_AlwaysMerged(tri, merge_vertices, decimals) ==
  LET u == _unique_rows_tol(Vertices(tri), decimals)
  IN  [kind |-> "ok", nodes |-> u.nodes, faces |-> Rows3(u.inv)]

\* the end of load_stl: nodes and faces from the decoded triangles
Mesh(tri, merge_vertices, decimals) ==
  LET verts == Vertices(tri)
      u == _unique_rows_tol(verts, decimals)
  IN  IF merge_vertices
      THEN [kind |-> "ok", nodes |-> u.nodes, faces |-> Rows3(u.inv)]
      ELSE [kind |-> "ok", nodes |-> verts,
            faces |-> Rows3([i \in 1..Len(verts) |-> i - 1])]

(***************************************************************************)
(* The files of the model, byte by byte.  A file is a prefix followed by   *)
(* text lines or by facet records.                                         *)
(***************************************************************************)
\* the largest number of text lines after the prefix
MaxLines == 3
\* the largest number of facet records after the prefix
MaxRecords == 2
\* the largest coordinate, in units of the smallest power of two of a mesh,
\* of the meshes whose area is compared
MaxScaled == 8
\* a vertex line: "vertex 1 0 0\n"
LineVertex ==
    <<118, 101, 114, 116, 101, 120, 32, 49, 32, 48, 32, 48, 10>>
\* capitals, leading blanks, a fraction, a sign, a fifth token, \r\n:
\* "  VERTEX 0.5 -1 2 7\r\n"
LinePadded ==
    <<32, 32, 86, 69, 82, 84, 69, 88, 32, 48, 46, 53, 32, 45, 49, 32, 50, 32, 55, 13, 10>>
\* a coordinate that is no number: "vertex 0 x 0\n"
LineNotNumeric ==
    <<118, 101, 114, 116, 101, 120, 32, 48, 32, 120, 32, 48, 10>>
\* two coordinates: "vertex 1 2\n"
LineShort ==
    <<118, 101, 114, 116, 101, 120, 32, 49, 32, 50, 10>>
\* a first token that begins with the word: "vertexes 1 2 3\n"
LineVertexes ==
    <<118, 101, 114, 116, 101, 120, 101, 115, 32, 49, 32, 50, 32, 51, 10>>
\* a first token that begins with the word, three numbers after it: "vertex1 2 3 4\n"
LineVertex1 ==
    <<118, 101, 114, 116, 101, 120, 49, 32, 50, 32, 51, 32, 52, 10>>
\* another statement: "endloop\n"
LineEndloop ==
    <<101, 110, 100, 108, 111, 111, 112, 10>>
LinePool ==
  {LineVertex,
   LinePadded,
   LineNotNumeric,
   LineShort,
   LineVertexes,
   LineVertex1,
   LineEndloop}
\* a facet: normal (0,0,1), vertices (0,0,0) (1,0,0) (0,1,0), attribute 0
FacetA ==
    <<0, 0, 0, 0, 0, 0, 0, 0, 0, 0, 128, 63, 0, 0, 0, 0, 0, 0, 0, 0, 0, 0, 0, 0, 0, 0,
      128, 63, 0, 0, 0, 0, 0, 0, 0, 0, 0, 0, 0, 0, 0, 0, 128, 63, 0, 0, 0, 0, 0, 0>>
\* a facet: normal (1,0,0), vertices (2^-149,0,0) (1,0,0) (0,0.5,-1), attribute 1
FacetB ==
    <<0, 0, 128, 63, 0, 0, 0, 0, 0, 0, 0, 0, 1, 0, 0, 0, 0, 0, 0, 0, 0, 0, 0, 0, 0, 0,
      128, 63, 0, 0, 0, 0, 0, 0, 0, 0, 0, 0, 0, 0, 0, 0, 0, 63, 0, 0, 128, 191, 1, 0>>
\* a facet smaller than the rounding: normal (0,0,1), vertices (0,0,0)
\* (2^-42,0,0) (0,2^-42,0), attribute 0
FacetC ==
    <<0, 0, 0, 0, 0, 0, 0, 0, 0, 0, 128, 63, 0, 0, 0, 0, 0, 0, 0, 0, 0, 0, 0, 0, 0, 0,
      128, 42, 0, 0, 0, 0, 0, 0, 0, 0, 0, 0, 0, 0, 0, 0, 128, 42, 0, 0, 0, 0, 0, 0>>

FacetPool == {FacetA, FacetB, FacetC}
\* an 80-byte header of zeros
ZeroHeader == [i \in 1..80 |-> 0]
\* an 80-byte header that is text and holds a triangle around a malformed line:
\* "solid m\nvertex 0 0 0\nvertex 1 0\nvertex 1 0 0\nvertex 0 0 1\n", 21 blanks, "\n"
TextHeader ==
    <<115, 111, 108, 105, 100, 32, 109, 10, 118, 101, 114, 116, 101, 120, 32, 48, 32,
      48, 32, 48, 10, 118, 101, 114, 116, 101, 120, 32, 49, 32, 48, 10, 118, 101, 114,
      116, 101, 120, 32, 49, 32, 48, 32, 48, 10, 118, 101, 114, 116, 101, 120, 32, 48,
      32, 48, 32, 49, 10, 32, 32, 32, 32, 32, 32, 32, 32, 32, 32, 32, 32, 32, 32, 32,
      32, 32, 32, 32, 32, 32, 10>>

Headers == {ZeroHeader, TextHeader}

\* the count n as four little-endian bytes
CountBytes(n) == <<n % 256, (n \div 256) % 256, 0, 0>>

RECURSIVE Concat(_)
Concat(ss) == IF ss = <<>> THEN <<>> ELSE Head(ss) \o Concat(Tail(ss))

\* The file is text: up to MaxLines lines of LinePool, or the text header
\* followed by fewer than MaxLines lines of LinePool (which then lie where a
\* count and facets would); or it is a header, a count and up to MaxRecords
\* facets of FacetPool, as many as the count says or not.
InitFile ==
  \/ \E n \in 0..MaxLines : \E body \in [1..n -> LinePool] : data = Concat(body)
  \/ \E n \in 0..(MaxLines - 1) : \E body \in [1..n -> LinePool] :
       data = TextHeader \o Concat(body)
  \/ \E header \in Headers : \E count \in 0..MaxRecords :
       \E n \in 0..MaxRecords : \E body \in [1..n -> FacetPool] :
         data = header \o CountBytes(count) \o Concat(body)

(***************************************************************************)
(* pyshape/io.py: load_stl, one action per stage of the function.          *)
(***************************************************************************)
InitStl ==
  /\ HAS_TRIMESH \in BOOLEAN
  /\ exists \in BOOLEAN
  /\ IF exists THEN InitFile ELSE data = <<>>
  /\ merge \in BOOLEAN
  /\ lpc = "start"
  /\ triangles = "None"
  /\ lines = <<>> /\ tris = <<>> /\ cur = <<>>
  /\ out = NoResult
  /\ MeshIdle

\* A routing that tries the binary decoder on every file.
Route_AlwaysBinary(len) == "binary"

\* `if len(data) >= 84:` the binary decoder first; otherwise, triangles being
\* None, the text decoder
Route(len) == IF len >= BinaryHeaderLen THEN "binary" ELSE "text"

\* `if not p.exists(): raise FileNotFoundError`, then, without trimesh,
\* `data = p.read_bytes()`
Open ==
  /\ lpc = "start"
  /\ ~(exists /\ HAS_TRIMESH)
  /\ IF ~exists
     THEN /\ out' = Raise("FileNotFoundError", "STL not found")
          /\ lpc' = "done"
     ELSE /\ out' = out
          /\ lpc' = Route(Len(data))
  /\ UNCHANGED <<HAS_TRIMESH, exists, data, merge, triangles, lines, tris, cur>>
  /\ UNCHANGED meshVars

\* The triangles trimesh.load reads from the file.  The library is no part of
\* the repository; a file it can read is taken to hold the triangles the
\* decoders above find in it.
LibraryTriangles ==
  LET b == _parse_stl_binary(data)
      a == _parse_stl_ascii(Utf8Ignore(data))
  IN  IF b.kind = "ok" THEN b ELSE a

\* `if HAS_TRIMESH:` the mesh comes from trimesh.load(str(p), process=True,
\* force="mesh"), merged once more when merge_vertices is set; the decoders
\* of this module are not run.  What the library does is not in the source:
\* the load fails or succeeds, and process=True has merged the vertices or
\* has not.
Delegate ==
  /\ lpc = "start"
  /\ exists /\ HAS_TRIMESH
  /\ \E parsed \in BOOLEAN, processed \in BOOLEAN :
       LET t == LibraryTriangles
       IN  IF parsed /\ t.kind = "ok"
           THEN /\ triangles' = t.triangles
                /\ out' = Mesh(t.triangles, merge \/ processed, Decimals)
           ELSE /\ triangles' = triangles
                /\ out' = Raise("Exception", "trimesh.load")
  /\ lpc' = "done"
  /\ UNCHANGED <<HAS_TRIMESH, exists, data, merge, lines, tris, cur>>
  /\ UNCHANGED meshVars

\* `try: triangles = _parse_stl_binary(data)  except Exception: triangles = None`
TryBinary ==
  /\ lpc = "binary"
  /\ LET r == _parse_stl_binary(data)
     IN  IF r.kind = "raise"
         THEN triangles' = "None" /\ lpc' = "text"
         ELSE triangles' = r.triangles /\ lpc' = "post"
  /\ UNCHANGED <<HAS_TRIMESH, exists, data, merge, lines, tris, cur, out>>
  /\ UNCHANGED meshVars

\* `text = data.decode('utf-8', errors='ignore')` and the start of
\* _parse_stl_ascii: `tris = []`, `cur = []`, `text.splitlines()`
DecodeText ==
  /\ lpc = "text"
  /\ lines' = SplitLines(Utf8Ignore(data))
  /\ tris' = <<>>
  /\ cur' = <<>>
  /\ lpc' = "lines"
  /\ UNCHANGED <<HAS_TRIMESH, exists, data, merge, triangles, out>>
  /\ UNCHANGED meshVars

\* one pass of `for raw in text.splitlines():`
Scan ==
  /\ lpc = "lines"
  /\ lines # <<>>
  /\ LET st == ScanLine(Head(lines), [tris |-> tris, cur |-> cur])
     IN  tris' = st.tris /\ cur' = st.cur
  /\ lines' = Tail(lines)
  /\ UNCHANGED <<HAS_TRIMESH, exists, data, merge, lpc, triangles, out>>
  /\ UNCHANGED meshVars

\* the end of the loop: `if not tris: raise ValueError`, which load_stl turns
\* into its own ValueError; otherwise the array of triangles
EndText ==
  /\ lpc = "lines"
  /\ lines = <<>>
  /\ IF tris = <<>>
     THEN /\ out' = Raise("ValueError",
                          "Could not parse STL file: No triangles found in ASCII STL")
          /\ triangles' = triangles
          /\ lpc' = "done"
     ELSE /\ out' = out
          /\ triangles' = tris
          /\ lpc' = "post"
  /\ UNCHANGED <<HAS_TRIMESH, exists, data, merge, lines, tris, cur>>
  /\ UNCHANGED meshVars

\* `verts = triangles.reshape(-1, 3)` to `return nodes, faces`
Post ==
  /\ lpc = "post"
  /\ out' = Mesh(triangles, merge, Decimals)
  /\ lpc' = "done"
  /\ UNCHANGED <<HAS_TRIMESH, exists, data, merge, triangles, lines, tris, cur>>
  /\ UNCHANGED meshVars

NextStl ==
  \/ Open
  \/ Delegate
  \/ TryBinary
  \/ DecodeText
  \/ Scan
  \/ EndText
  \/ Post

SpecStl == InitStl /\ [][NextStl]_vars

(***************************************************************************)
(* Claims about load_stl, checked under SpecStl.                           *)
(***************************************************************************)
\* the four bytes at offset 80 spell the count c, low byte first
DeclaresCount(c) ==
  /\ data[81] = c % 256
  /\ data[82] = (c \div 256) % 256
  /\ data[83] = (c \div 65536) % 256
  /\ data[84] = c \div 16777216

\* the file has the header and as many bytes as its count asks for; a count
\* that fits the file is at most Len(data) \div 50
LengthFitsCount(c) == Len(data) = 84 + 50 * c /\ DeclaresCount(c)

BinarySized == Len(data) >= 84 /\ \E c \in 0..(Len(data) \div 50) : LengthFitsCount(c)

\* the three float32 values at the 0-based byte offset off
FloatsAt(off) == [k \in 1..3 |-> Float32(SubSeq(data, off + 4 * (k - 1) + 1, off + 4 * k))]

\* count triangles, vertex j of triangle i read at 84 + 50*i + 12 + 12*j
FacetsOfFile(c) ==
  [i \in 1..c |-> [j \in 1..3 |-> FloatsAt(84 + 50 * (i - 1) + 12 + 12 * (j - 1))]]

\* what the text decoder makes of the file's bytes
TextOfFile == _parse_stl_ascii(Utf8Ignore(data))

\* what load_stl gives when the text decoder decides and gives t
TextOutcome(t) ==
  IF t.kind = "raise"
  THEN Raise("ValueError", "Could not parse STL file: No triangles found in ASCII STL")
  ELSE Mesh(t.triangles, merge, Decimals)

\* the text decoder has not been started
TextUntouched == lpc \notin {"text", "lines"} /\ lines = <<>> /\ tris = <<>> /\ cur = <<>>

\* C6: a file of at least 84 bytes whose length is 84 + 50*count, count being
\* the little-endian uint32 at offset 80, is decoded as binary: the triangles
\* are exactly count, vertex j of triangle i is the three float32 at offset
\* 84 + 50*i + 12 + 12*j, the mesh returned is built from them, and the text
\* decoder is never started.
C6_BinaryDecoding ==
  (~HAS_TRIMESH /\ exists /\ Len(data) >= 84)
    => \A c \in 0..(Len(data) \div 50) :
         LengthFitsCount(c)
           => /\ TextUntouched
              /\ lpc \in {"post", "done"} => triangles = FacetsOfFile(c)
              /\ lpc = "done" => out = Mesh(FacetsOfFile(c), merge, Decimals)

\* a binary file of one facet returned, whose header is text in which the
\* text decoder would have found another triangle
C6_Witness ==
  /\ ~HAS_TRIMESH /\ exists /\ lpc = "done" /\ LengthFitsCount(1)
  /\ out.kind = "ok" /\ Len(out.faces) = 1
  /\ TextOfFile.kind = "ok"
  /\ TextOfFile.triangles # triangles

\* C7 as stated: loading a file of at least 84 bytes whose length differs
\* from 84 + 50*count fails with ValueError, and no mesh is returned.
C7_MismatchFails ==
  (~HAS_TRIMESH /\ exists /\ Len(data) >= 84 /\ ~BinarySized /\ lpc = "done")
    => out.kind = "raise" /\ out.type = "ValueError"

\* C7, amended: for a file of at least 84 bytes whose length differs from
\* 84 + 50*count the binary decoding is given up and the text decoder
\* decides: loading fails with ValueError exactly when the text decoder finds
\* no triangle, and otherwise the mesh of the text decoder's triangles is
\* returned.
C7_MismatchFallsBack ==
  (~HAS_TRIMESH /\ exists /\ Len(data) >= 84 /\ ~BinarySized)
    => LET t == TextOfFile
       IN  /\ lpc = "post" => t.kind = "ok" /\ triangles = t.triangles
           /\ lpc = "done" => out = TextOutcome(t)
           /\ lpc = "done" => (out.kind = "raise" <=> t.kind = "raise")
           /\ lpc = "done" /\ out.kind = "raise" => out.type = "ValueError"

\* a file of at least 84 bytes with a mismatched count, loaded as a mesh
C7_Witness ==
  /\ ~HAS_TRIMESH /\ exists /\ Len(data) >= 84 /\ ~BinarySized
  /\ lpc = "done" /\ out.kind = "ok" /\ Len(out.faces) >= 1

\* C8: for an existing file shorter than 84 bytes the binary decoder is never
\* tried and the outcome is the text decoder's: its triangles, or ValueError
\* when it finds none; a path that does not exist raises FileNotFoundError
\* and nothing is parsed.
C8_ShortOrMissing ==
  /\ (~HAS_TRIMESH /\ exists /\ Len(data) < 84)
       => LET t == TextOfFile
          IN  /\ lpc # "binary"
              /\ lpc = "post" => t.kind = "ok" /\ triangles = t.triangles
              /\ lpc = "done" => out = TextOutcome(t)
              /\ lpc = "done" /\ t.kind = "raise"
                   => out.kind = "raise" /\ out.type = "ValueError"
  /\ ~exists
       => /\ lpc \in {"start", "done"}
          /\ TextUntouched /\ triangles = "None"
          /\ lpc = "done" => out.kind = "raise" /\ out.type = "FileNotFoundError"

\* a file shorter than 84 bytes loaded as a mesh of the text decoder's triangles
C8_Witness ==
  /\ ~HAS_TRIMESH /\ exists /\ Len(data) < 84 /\ data # <<>>
  /\ lpc = "done" /\ out.kind = "ok" /\ Len(out.faces) >= 1

\* a line whose first token is "vertex" in any case, with three numeric
\* tokens after it
ProperVertexLine(raw) ==
  LET parts == SplitTokens(raw)
  IN  /\ Len(parts) >= 4
      /\ LowerLine(parts[1]) = VertexWord
      /\ \A c \in 1..3 : ParseFloat(parts[c + 1]) # NotAFloat

\* C9: the text decoder takes a vertex only from a line whose first token is
\* "vertex" (in any case) followed by three numeric tokens: scanning any
\* other line, such as "vertexes 1 2 3" or "vertex1 2 3 4", leaves the pending
\* vertices and the triangles as they were.
C9_OnlyProperVertexLines ==
  [][(lpc = "lines" /\ lines # <<>> /\ ~ProperVertexLine(Head(lines)))
       => (cur' = cur /\ tris' = tris)]_vars

\* the lines of the file scanned so far
ScannedLines ==
  LET all == SplitLines(Utf8Ignore(data))
  IN  SubSeq(all, 1, Len(all) - Len(lines))

\* the vertices of the well-formed vertex lines among ls, in file order
WellFormedVertices(ls) ==
  LET at == {i \in 1..Len(ls) : ProperVertexLine(ls[i])}
  IN  [k \in 1..Cardinality(at) |->
         LET parts == SplitTokens(ls[Nth(at, k)])
         IN  [c \in 1..3 |-> ParseFloat(parts[c + 1])]]

\* C10: with k well-formed vertex lines scanned, the decoder holds exactly
\* floor(k/3) triangles, triangle i made of the well-formed vertices 3i, 3i+1,
\* 3i+2 in file order, and the k mod 3 later ones pending, at most 2 after
\* every line; malformed vertex lines change nothing, and a trailing group of
\* 1 or 2 vertices is dropped without an error of its own.
C10_GroupsOfThree ==
  /\ lpc = "lines"
       => LET v == WellFormedVertices(ScannedLines)
              k == Len(v)
          IN  /\ tris = [i \in 1..(k \div 3) |-> [j \in 1..3 |-> v[3 * (i - 1) + j]]]
              /\ cur = [j \in 1..(k % 3) |-> v[3 * (k \div 3) + j]]
              /\ Len(cur) <= 2
  /\ (lpc = "post" /\ lines = <<>> /\ tris # <<>>)
       => triangles = tris

(***************************************************************************)
(* Claims about the nodes and faces load_stl returns, under SpecStl.       *)
(***************************************************************************)
\* load_stl has returned a mesh
Returned == lpc = "done" /\ out.kind = "ok"

\* the built-in loader has returned a mesh
Loaded == ~HAS_TRIMESH /\ Returned

\* the 3T raw vertices of the decoded triangles, in file order
RawVertices == Vertices(triangles)

\* the i-th of the 3T face entries, row by row
FaceEntry(i) == out.faces[((i - 1) \div 3) + 1][((i - 1) % 3) + 1]

\* a point with every coordinate rounded to the loader's decimals
RoundedPoint(pt) == [c \in 1..3 |-> Round(pt[c], Decimals)]

\* C11: with merge_vertices, two raw vertices get the same node index exactly
\* when their rounded coordinates are equal; every face entry is in
\* [0, |nodes|); every node is referenced by a face corner; and the node of
\* corner k of triangle t rounds to the same point as raw vertex 3t+k.
C11_MergeByRoundedPoint ==
  (Loaded /\ merge)
    => LET raw == RawVertices
           n == Len(raw)
           rounded == [i \in 1..n |-> RoundedPoint(raw[i])]
       IN  /\ Len(out.faces) = Len(triangles)
           /\ \A i, j \in 1..n : FaceEntry(i) = FaceEntry(j) <=> rounded[i] = rounded[j]
           /\ \A i \in 1..n : FaceEntry(i) \in 0..(Len(out.nodes) - 1)
           /\ \A k \in 1..Len(out.nodes) : \E i \in 1..n : FaceEntry(i) = k - 1
           /\ \A i \in 1..n : RoundedPoint(out.nodes[FaceEntry(i) + 1]) = rounded[i]

\* two triangles loaded with merging in which two raw vertices with different
\* coordinates round to one point and share a node
C11_Witness ==
  /\ Loaded /\ merge /\ Len(triangles) = 2
  /\ \E i, j \in 1..6 :
       /\ RawVertices[i] # RawVertices[j]
       /\ FaceEntry(i) = FaceEntry(j)
  /\ Len(out.nodes) < 6

\* the place in the file of the first raw vertex that maps to node a (0-based)
FirstRaw(a) == Min({i \in 1..Len(RawVertices) : FaceEntry(i) = a})

\* C12: with merge_vertices the nodes are in first-seen order: node a precedes
\* node b exactly when the first raw vertex mapped to a lies in the file
\* before the first raw vertex mapped to b.
C12_FirstSeenOrder ==
  (Loaded /\ merge)
    => \A a, b \in 0..(Len(out.nodes) - 1) : a < b <=> FirstRaw(a) < FirstRaw(b)

\* the nodes are the 3T raw vertices in file order, and face t is
\* (3t, 3t+1, 3t+2)
ConsecutiveTriples ==
  /\ Len(out.faces) = Len(triangles)
  /\ Len(out.nodes) = 3 * Len(triangles)
  /\ \A t \in 1..Len(triangles) : \A k \in 1..3 :
       /\ out.nodes[3 * (t - 1) + k] = triangles[t][k]
       /\ out.faces[t][k] = 3 * (t - 1) + k - 1

UnitExponent(raw) == Min({0} \cup {raw[i][c].e : i \in 1..Len(raw), c \in 1..3})

\* the coordinate v in units of 2^u fits MaxScaled
FitsUnit(v, u) ==
  \/ v.m = 0
  \/ /\ Abs(v.m) <= MaxScaled
     /\ v.e - u <= MaxScaled
     /\ Abs(v.m) * Pow(2, v.e - u) <= MaxScaled

\* every coordinate of raw fits, in units of the least exponent
Scalable(raw) ==
  LET u == UnitExponent(raw)
  IN  \A i \in 1..Len(raw) : \A c \in 1..3 : FitsUnit(raw[i][c], u)

\* a point in units of 2^u
Scaled(pt, u) == [c \in 1..3 |-> IF pt[c].m = 0 THEN 0 ELSE pt[c].m * Pow(2, pt[c].e - u)]

\* twice the sum of the areas of the decoded triangles, computed directly
OriginalArea2(u) ==
  RadSum([t \in 1..Len(triangles) |->
            LET A == Scaled(triangles[t][1], u)
                B == Scaled(triangles[t][2], u)
                Cn == Scaled(triangles[t][3], u)
            IN  Norm(Cross(Sub(B, A), Sub(Cn, A)))])

\* surface_area(nodes, faces) of the mesh load_stl returned
LoadedArea(u) ==
  surface_area([i \in 1..Len(out.nodes) |-> Scaled(out.nodes[i], u)],
               [w |-> 3, rows |-> out.faces])

\* the area of the loaded mesh is the area of the file's triangles
SameArea(raw) ==
  LET u == UnitExponent(raw)
      loaded == LoadedArea(u)
  IN  loaded.kind = "ok" /\ loaded.area2 = OriginalArea2(u)

\* no two vertices of raw with different coordinates round to the same point
NoMergedDistinct(raw) ==
  LET rounded == [i \in 1..Len(raw) |-> RoundedPoint(raw[i])]
  IN  \A i, j \in 1..Len(raw) : rounded[i] = rounded[j] => raw[i] = raw[j]

\* every coordinate of raw is its own rounding at the loader's decimals
AllRepresentable(raw) ==
  \A i \in 1..Len(raw) : \A c \in 1..3 : Round(raw[i][c], Decimals) = raw[i][c]

\* corner k of face t of the returned mesh is corner k of triangle t
CornersReproduced ==
  /\ Len(out.faces) = Len(triangles)
  /\ \A t \in 1..Len(triangles) : \A k \in 1..3 :
       /\ out.faces[t][k] \in 0..(Len(out.nodes) - 1)
       /\ out.nodes[out.faces[t][k] + 1] = triangles[t][k]

\* C14 as stated: with or without merging, surface_area of the loaded mesh
\* equals the sum of the areas of the file's triangles, and the corners are
\* reproduced exactly when every coordinate is representable at the rounding
\* precision.
C14_AreaAlwaysEqual ==
  Returned
    => LET raw == RawVertices
       IN  /\ Scalable(raw) => SameArea(raw)
           /\ AllRepresentable(raw) => CornersReproduced

\* C14, amended: for the built-in parser, surface_area of the loaded mesh
\* equals the sum of the areas of the file's triangles when merging is
\* disabled or no two different raw vertices round to the same point, and
\* the corners are then reproduced exactly; this is so in particular when
\* every coordinate is representable at the rounding precision.
C14_AreaEqualUnlessMerged ==
  Loaded
    => LET raw == RawVertices
       IN  /\ (~merge \/ NoMergedDistinct(raw))
                => /\ CornersReproduced
                   /\ Scalable(raw) => SameArea(raw)
           /\ AllRepresentable(raw) => NoMergedDistinct(raw)

\* two triangles of positive area with common corners, loaded with merging
\* into fewer than six nodes, and the two areas computed
C14_Witness ==
  /\ Loaded /\ merge /\ NoMergedDistinct(RawVertices) /\ Scalable(RawVertices)
  /\ Len(triangles) = 2 /\ Len(out.nodes) < 6
  /\ SameArea(RawVertices)
  /\ DOMAIN OriginalArea2(UnitExponent(RawVertices)) # {}

(***************************************************************************)
(* Claims about surface_orientation_tensor, under SpecMesh.                *)
(***************************************************************************)
\* the call raised the zero-area error
AreaError ==
  /\ res.kind = "raise" /\ res.type = "ValueError"
  /\ res.msg = "total surface area is zero; mesh may be degenerate"

\* the rows of fa, from row r on, whose triangle (row of conv) has an area
RECURSIVE KeepRows(_, _, _, _)
KeepRows(nd, conv, fa, r) ==
  IF r > Len(fa.rows) THEN <<>>
  ELSE (IF Norm(FaceCrossAB_BC(nd, conv.rows[r])) = <<>> THEN <<>> ELSE <<fa.rows[r]>>)
       \o KeepRows(nd, conv, fa, r + 1)

\* the caller's faces without the zero-area triangles
WithoutDegenerate(nd, fa) ==
  [w |-> 3, rows |-> KeepRows(nd, ConvertIndices(fa, Len(nd)), fa, 1)]

\* fa is accepted and some triangle of it has an area
HasArea(nd, fa) ==
  /\ ~OutOfRange(ConvertIndices(fa, Len(nd)), Len(nd))
  /\ WithoutDegenerate(nd, fa).rows # <<>>

\* the caller's faces and one more triangle, with the three corners j
WithPoint(fa, j) == [w |-> 3, rows |-> Append(fa.rows, <<j, j, j>>)]

\* two returns with the same tensor, eigenvalues and indices
SameIndices(a, b) ==
  /\ a.kind = "ok" /\ b.kind = "ok"
  /\ a.f = b.f /\ a.evaluated = b.evaluated
  /\ a.evaluated
       => a.C = b.C /\ a.F = b.F /\ a.R = b.R /\ a.eigen_values = b.eigen_values

\* the call on fa and the call on fa without its zero-area triangles return
\* the same, whatever np.argsort does with equal eigenvalues
RemovalKeeps(nd, fa) ==
  LET with == surface_orientation_tensor(nd, fa)
      without == surface_orientation_tensor(nd, WithoutDegenerate(nd, fa))
  IN  \A a \in with : \A b \in without : SameIndices(a, b)

\* what the call returned is what it returns for the caller's faces without
\* their zero-area triangles
RemovalKept ==
  \A b \in surface_orientation_tensor(nodes, WithoutDegenerate(nodes, idx)) :
    SameIndices(res, b)

\* removing the zero-area triangles leaves the faces 0-based or 1-based as
\* they were
SameBase(nd, fa) ==
  OneBased(fa, Len(nd)) <=> OneBased(WithoutDegenerate(nd, fa), Len(nd))

\* the zero-area error is raised exactly for the accepted faces without area
C15_ErrorExactly ==
  (call = "orientation" /\ ~RangeError)
    => /\ AreaError <=> ~HasArea(nodes, idx)
       /\ ~AreaError => res.kind = "ok"

\* C15 as stated: the call raises the zero-area ValueError exactly when no
\* triangle has a positive area; for every mesh with a triangle of positive
\* area, with zero-area triangles among its faces or (for a single face) one
\* added to it, the call returns C, F, R and eigenvalues identical to those
\* for the faces with the zero-area triangles removed.
C15_AnyMesh ==
  /\ C15_ErrorExactly
  /\ (call = "orientation" /\ res.kind = "ok") => RemovalKept
  /\ (call = "orientation" /\ res.kind = "ok" /\ Len(idx.rows) = 1)
       => \A j \in 0..Len(nodes) :
            HasArea(nodes, WithPoint(idx, j)) => RemovalKeeps(nodes, WithPoint(idx, j))

\* C15, amended: the call raises the zero-area ValueError exactly when no
\* triangle has a positive area; for every mesh with a triangle of positive
\* area whose faces are read as 0-based or as 1-based with and without the
\* zero-area triangles alike, the call returns C, F, R and eigenvalues
\* identical to those for the faces with the zero-area triangles removed.
C15_SameBase ==
  /\ C15_ErrorExactly
  /\ (call = "orientation" /\ res.kind = "ok" /\ SameBase(nodes, idx)) => RemovalKept
  /\ (call = "orientation" /\ res.kind = "ok" /\ Len(idx.rows) = 1)
       => \A j \in 0..Len(nodes) :
            (HasArea(nodes, WithPoint(idx, j)) /\ SameBase(nodes, WithPoint(idx, j)))
              => RemovalKeeps(nodes, WithPoint(idx, j))

\* a mesh of one triangle with an area and one without returned its indices
C15_Witness ==
  /\ call = "orientation" /\ res.kind = "ok" /\ res.evaluated
  /\ Len(idx.rows) = 2 /\ Len(WithoutDegenerate(nodes, idx).rows) = 1
  /\ SameBase(nodes, idx)

\* the transposed position of entry i of a 3 x 3 matrix kept row by row
Transposed(i) == 3 * ((i - 1) % 3) + ((i - 1) \div 3) + 1

\* m (nine numerators over one denominator) is symmetric
SymmetricMatrix(m) == \A i \in 1..9 : m.num[i] = m.num[Transposed(i)]

\* the trace of m, as a fraction
Trace(m) == Ratio(m.num[1] + m.num[5] + m.num[9], m.den)

\* f is symmetric with trace 1; where f is the quotient of two sums of
\* radicals, the sums are compared radical by radical
SymmetricTraceOne(f) ==
  IF f.rational
  THEN SymmetricMatrix(f.m) /\ Trace(f.m) = Ratio(1, 1)
  ELSE /\ DOMAIN f.num = DOMAIN f.den
       /\ \A s \in DOMAIN f.num :
            SymmetricMatrix(f.num[s]) /\ Trace(f.num[s]) = Ratio(f.den[s], 1)

\* the sum of three fractions
Sum3(e) ==
  Ratio(e[1].num[1] * e[2].den * e[3].den + e[2].num[1] * e[1].den * e[3].den
          + e[3].num[1] * e[1].den * e[2].den,
        e[1].den * e[2].den * e[3].den)

\* every node used by the faces has the same coordinate c
InCoordinatePlane(nd, faces, c) ==
  Cardinality({At(nd, i)[c] : i \in Entries(faces)}) <= 1

\* the unit vector of axis c
Axis(c) == [i \in 1..3 |-> IF i = c THEN 1 ELSE 0]

\* C16: whenever surface_orientation_tensor returns (positive total area),
\* its tensor f is symmetric with trace 1 and the eigenvalues it returns are
\* in descending order and sum to 1; when all triangles lie in a plane of
\* constant coordinate c, f has the single non-zero entry 1 at (c, c), the
\* eigenvalues are (1, 0, 0) and the first eigenvector is the axis c.
C16_TensorAndPlanar ==
  (call = "orientation" /\ res.kind = "ok")
    => /\ SymmetricTraceOne(res.f)
       /\ res.evaluated
            => /\ ~FracLess(res.eigen_values[1], res.eigen_values[2])
               /\ ~FracLess(res.eigen_values[2], res.eigen_values[3])
               /\ Sum3(res.eigen_values) = Ratio(1, 1)
       /\ \A c \in 1..3 :
            InCoordinatePlane(nodes, res.faces, c)
              => /\ res.f.rational
                 /\ res.f.m = Frac([i \in 1..9 |-> IF i = 4 * c - 3 THEN 1 ELSE 0], 1)
                 /\ res.evaluated
                 /\ res.eigen_values = <<Ratio(1, 1), Ratio(0, 1), Ratio(0, 1)>>
                 /\ res.eigen_vectors[1] = Axis(c)

\* the unit square of two triangles in the plane z = 0 returned its tensor
C16_Witness ==
  /\ call = "orientation" /\ res.kind = "ok" /\ Len(res.faces.rows) = 2
  /\ InCoordinatePlane(nodes, res.faces, 3)
  /\ res.total_area2 = Norm(<<0, 0, 2>>)
  /\ res.eigen_vectors[1] = <<0, 0, 1>>

(***************************************************************************)
(* Claims about the scalar formulas, under SpecForm.                       *)
(***************************************************************************)
\* 0 <= x <= 1
InUnitInterval(x) == ~FracLess(x, QZero) /\ ~FracLess(Ratio(1, 1), x)

\* C17: for every eigenvalue triple f1 >= f2 >= f3 >= 0 with f1 > 0 the
\* indices C = f3 / f1, F = (f1 - f2) / f1 and R = (f2 - f3) / f1 are
\* returned, F + R = 1 - C (so C + F + R = 1), and each of C, F, R lies in
\* [0, 1].
C17_IndicesPartition ==
  (call = "indices" /\ ~FracLess(args[3], QZero) /\ FracLess(QZero, args[1]))
    => /\ res.kind = "ok"
       /\ res.C = TrueDivide(args[3], args[1]).value
       /\ res.F = TrueDivide(QSub(args[1], args[2]), args[1]).value
       /\ res.R = TrueDivide(QSub(args[2], args[3]), args[1]).value
       /\ QAdd(res.F, res.R) = QSub(Ratio(1, 1), res.C)
       /\ QAdd(res.C, QAdd(res.F, res.R)) = Ratio(1, 1)
       /\ InUnitInterval(res.C) /\ InUnitInterval(res.F) /\ InUnitInterval(res.R)

\* three different positive eigenvalues, the largest not 1, gave three
\* indices strictly between 0 and 1
C17_Witness ==
  /\ call = "indices" /\ res.kind = "ok"
  /\ FracLess(QZero, args[3]) /\ FracLess(args[3], args[2]) /\ FracLess(args[2], args[1])
  /\ args[1] # Ratio(1, 1)
  /\ FracLess(QZero, res.C) /\ FracLess(QZero, res.F) /\ FracLess(QZero, res.R)

\* the call raised a ValueError
DomainError == res.kind = "raise" /\ res.type = "ValueError"

\* a quotient, or 0 in place of a division by 0
QuotientOrZero(a, b) == IF b = QZero THEN QZero ELSE TrueDivide(a, b).value

\* C18: convexity(V, Vch) raises ValueError exactly when Vch <= 0 or V < 0
\* and returns V / Vch otherwise; sphericity_krumbein(S, I, L) raises
\* ValueError exactly when L <= 0 or I < 0 or S < 0; sphericity_wadell(V, A)
\* raises ValueError exactly when V < 0 or A <= 0.
C18_DomainErrorExactly ==
  /\ call = "convexity"
       => /\ DomainError <=> (~FracLess(QZero, args[2]) \/ FracLess(args[1], QZero))
          /\ ~DomainError => res = Value(TrueDivide(args[1], args[2]).value)
  /\ call = "sphericity_krumbein"
       => /\ DomainError <=> (\/ ~FracLess(QZero, args[3])
                              \/ FracLess(args[2], QZero)
                              \/ FracLess(args[1], QZero))
          /\ ~DomainError => res.kind = "ok"
  /\ call = "sphericity_wadell"
       => (DomainError <=> (FracLess(args[1], QZero) \/ ~FracLess(QZero, args[2])))

\* convexity returned a quotient above 1
C18_Witness ==
  /\ call = "convexity" /\ res.kind = "ok" /\ FracLess(Ratio(1, 1), res.value)
  /\ res.value = TrueDivide(args[1], args[2]).value

\* C19: for every V >= 0 and A > 0, V = 0 included, sphericity_wadell(V, A)
\* returns a number and does not raise.
C19_WadellReturns ==
  (call = "sphericity_wadell" /\ ~FracLess(args[1], QZero) /\ FracLess(QZero, args[2]))
    => res.kind = "ok"

\* C20: the three pairs of form parameters are returned for every triple
\* (S, I, L), each term being 0 in place of a division by 0 (both terms for
\* Potticary when S + I + L = 0) and the stated quotient otherwise; for
\* 0 <= S <= I <= L the returned values lie in [0, 1].
C20_TotalAndBounded ==
  LET S == args[1]
      I == args[2]
      L == args[3]
      sum == QAdd(QAdd(S, I), L)
  IN  /\ call = "kong_and_fonseca"
           => res = Value(<<QuotientOrZero(QSub(I, S), I), QuotientOrZero(QSub(L, I), L)>>)
      /\ call = "potticary_et_al"
           => res = Value(<<QuotientOrZero(QMul(Ratio(2, 1), QSub(I, S)), sum),
                            QuotientOrZero(QSub(L, I), sum)>>)
      /\ call = "zingg"
           => res = Value(<<QuotientOrZero(S, I), QuotientOrZero(I, L)>>)
      /\ (/\ call \in {"kong_and_fonseca", "potticary_et_al", "zingg"}
          /\ ~FracLess(S, QZero) /\ ~FracLess(I, S) /\ ~FracLess(L, I))
           => /\ res.kind = "ok"
              /\ InUnitInterval(res.value[1]) /\ InUnitInterval(res.value[2])

\* the Potticary parameters of 0 < S < I < L, both strictly between 0 and 1
C20_Witness ==
  /\ call = "potticary_et_al" /\ res.kind = "ok"
  /\ FracLess(QZero, args[1]) /\ FracLess(args[1], args[2]) /\ FracLess(args[2], args[3])
  /\ FracLess(QZero, res.value[1]) /\ FracLess(res.value[1], Ratio(1, 1))
  /\ FracLess(QZero, res.value[2]) /\ FracLess(res.value[2], Ratio(1, 1))

\* C21: form_functions_1(A, V, Vch) returns (convexity(V, Vch),
\* sphericity_wadell(V, A)) and form_functions_2(S, I, L) returns
\* (sphericity_krumbein, Potticary flatness and elongation, Kong-Fonseca
\* flatness and elongation, Zingg S/I and I/L), in that order; a bundle
\* raises exactly when one of its components raises on those arguments (so
\* form_functions_2 raises for L <= 0, where the parameter functions alone
\* return), and then returns nothing.
C21_BundlesOfComponents ==
  /\ call = "form_functions_1"
       => LET con == convexity(args[2], args[3])
              spW == sphericity_wadell(args[2], args[1])
          IN  /\ res.kind = "raise" <=> (con.kind = "raise" \/ spW.kind = "raise")
              /\ res.kind = "raise" => DOMAIN res = {"kind", "type", "msg"}
              /\ res.kind = "ok" => res.value = <<con.value, spW.value>>
  /\ call = "form_functions_2"
       => LET spK == sphericity_krumbein(args[1], args[2], args[3])
              P == form_parameters_potticary_et_al(args[1], args[2], args[3])
              K == form_parameters_kong_and_fonseca(args[1], args[2], args[3])
              Z == form_parameters_zingg(args[1], args[2], args[3])
          IN  /\ P.kind = "ok" /\ K.kind = "ok" /\ Z.kind = "ok"
              /\ res.kind = "raise" <=> spK.kind = "raise"
              /\ res.kind = "raise" => DOMAIN res = {"kind", "type", "msg"}
              /\ ~FracLess(QZero, args[3]) => res.kind = "raise"
              /\ res.kind = "ok"
                   => res.value = <<spK.value, P.value[1], P.value[2], K.value[1],
                                    K.value[2], Z.value[1], Z.value[2]>>

\* form_functions_2 returned seven values, the Potticary and the
\* Kong-Fonseca pairs being different
C21_Witness ==
  /\ call = "form_functions_2" /\ res.kind = "ok" /\ Len(res.value) = 7
  /\ res.value[2] # res.value[4] /\ res.value[3] # res.value[5]
  /\ res.value[2] # QZero /\ res.value[6] # res.value[7]

(***************************************************************************)
(* roughness.py.  A height grid np.asarray(z, dtype=float) is modelled as  *)
(* [shape, base, samples]: its shape, and its samples in C order.  The     *)
(* sample k of a grid over the base b is the double                        *)
(*   (b.hi * Limb + b.lo + k) * 2^b.unit,                                   *)
(* so that the grids over Origin hold small integers and the grids over    *)
(* Tenth hold 0.1 and the doubles next to it.  The sum and the quotient of *)
(* np.mean are rounded as binary64 rounds them for the grids of full-width *)
(* mantissas, where the rounding decides the test `sq_value == 0`; sums of *)
(* small integers are exact, and the rounding of every other quotient,     *)
(* power and root is not modelled: those values are exact, in units of     *)
(* 2^b.unit.                                                               *)
(***************************************************************************)
\* the most cells of a grid
MaxCells == 6

\* the longest side of a 2-D grid
MaxSide == 3

\* the sample offsets
Offsets == {0, 1}

\* the precision of a double (dtype=float)
MantissaBits == 53

\* mantissas are held as two limbs, hi * Limb + lo
LimbBits == 26

Limb == Pow(2, LimbBits)

\* the double 0.0, and the double 0.1 = 0x1999999999999A * 2^-56
Origin == [hi |-> 0, lo |-> 0, unit |-> 0]

Tenth == [hi |-> 107374182, lo |-> 26843546, unit |-> -56]

Carry(hi, lo) == [hi |-> hi + lo \div Limb, lo |-> lo % Limb]

\* the mantissa of the sample k over the base b
Mantissa(b, k) == Carry(b.hi, b.lo + k)

\* the number of low bits of v that a double cannot hold
Excess(v) == BitLength(v.hi \div Pow(2, MantissaBits - LimbBits))

\* v rounded to a multiple of 2^k, to nearest, ties to even
RoundEven(v, k) ==
  LET u == Pow(2, k)
      r == v.lo % u
      down == v.lo - r
      up == IF 2 * r > u \/ (2 * r = u /\ (down \div u) % 2 = 1) THEN u ELSE 0
  IN  Carry(v.hi, down + up)

\* a + b of two doubles of one unit
FloatAdd(a, b) ==
  LET s == Carry(a.hi + b.hi, a.lo + b.lo)
  IN  RoundEven(s, Excess(s))

\* np.add.reduce over fewer than eight doubles: one after the other
RECURSIVE SumDoubles(_, _, _)
SumDoubles(b, ks, acc) ==
  IF ks = <<>> THEN acc
  ELSE SumDoubles(b, Tail(ks), FloatAdd(acc, Mantissa(b, Head(ks))))

\* s / n of a double by a count, for a quotient of full-width mantissa:
\* rounded to an integer mantissa, to nearest, ties to even
FloatDivide(s, n) ==
  LET t == (s.hi % n) * Limb + s.lo
      q == t \div n
      r == t % n
      up == IF 2 * r > n \/ (2 * r = n /\ q % 2 = 1) THEN 1 ELSE 0
  IN  Carry(s.hi \div n, q + up)

\* whether the samples over b are doubles of full-width mantissa
FullWidth(b) == b.hi >= Pow(2, MantissaBits - 1 - LimbBits)

\* np.mean(z) of a non-empty grid, less the base, in units
MeanOffset(z) ==
  LET n == Len(z.samples)
  IN  IF FullWidth(z.base)
      THEN LET m == FloatDivide(SumDoubles(z.base, z.samples, Carry(0, 0)), n)
           IN  Ratio((m.hi - z.base.hi) * Limb + (m.lo - z.base.lo), 1)
      ELSE Ratio(SumSeq(z.samples), n)

\* float values that are no numbers, and the default of sq_value
NaN == [num |-> "nan"]

Infinity == [num |-> "inf"]

None == [num |-> "None"]

\* _mean_center(z): the mean, less the base, in units; nan for an empty grid
mean_center(z) ==
  IF Len(z.shape) < 1 THEN Raise("ValueError", "z must be at least 1-D")
  ELSE IF z.samples = <<>> THEN Value(NaN)
  ELSE Value([num |-> "offset", q |-> MeanOffset(z)])

RECURSIVE QPow(_, _)
QPow(a, p) == IF p = 0 THEN Ratio(1, 1) ELSE QMul(a, QPow(a, p - 1))

RECURSIVE QSum(_)
QSum(s) == IF s = <<>> THEN QZero ELSE QAdd(Head(s), QSum(Tail(s)))

QAbs(a) == Ratio(Abs(a.num[1]), a.den)

QDiv(a, b) == Ratio(a.num[1] * b.den, a.den * b.num[1])

\* z - zm, in units
Deviations(z, zm) ==
  [i \in 1..Len(z.samples) |-> QSub(Ratio(z.samples[i], 1), zm.q)]

\* np.mean((z - zm) ** p) of a non-empty grid, in units^p
MeanPower(z, zm, p) ==
  LET d == Deviations(z, zm)
  IN  QMul(Ratio(1, Len(d)), QSum([i \in 1..Len(d) |-> QPow(d[i], p)]))

\* np.mean(np.abs(z - zm)) of a non-empty grid, in units
MeanAbs(z, zm) ==
  LET d == Deviations(z, zm)
  IN  QMul(Ratio(1, Len(d)), QSum([i \in 1..Len(d) |-> QAbs(d[i])]))

\* sq(z): sqrt(of) * 2^unit
sq(z) ==
  LET c == mean_center(z)
  IN  IF c.kind = "raise" THEN c
      ELSE IF c.value = NaN THEN Value(NaN)
      ELSE Value([num |-> "root", of |-> MeanPower(z, c.value, 2), unit |-> z.base.unit])

\* sa(z): q * 2^unit
sa(z) ==
  LET c == mean_center(z)
  IN  IF c.kind = "raise" THEN c
      ELSE IF c.value = NaN THEN Value(NaN)
      ELSE Value([num |-> "ratio", q |-> MeanAbs(z, c.value), unit |-> z.base.unit])

\* np.diff(Z, n=1, axis=1), row by row, in units
DiffColumns(z) ==
  LET N == z.shape[2]
      w == N - 1
  IN  [t \in 1..(z.shape[1] * w) |->
         LET i == (t - 1) \div w
             j == ((t - 1) % w) + 1
         IN  z.samples[i * N + j + 1] - z.samples[i * N + j]]

\* np.diff(Z, n=1, axis=0), row by row, in units
DiffRows(z) ==
  LET N == z.shape[2]
  IN  [t \in 1..((z.shape[1] - 1) * N) |-> z.samples[t + N] - z.samples[t]]

\* np.sum((d / h) ** 2)
SumSquares(d, h) ==
  QSum([t \in 1..Len(d) |-> QPow(QDiv(Ratio(d[t], 1), h), 2)])

\* An sdq that divides each sum by the number of its own differences.
sdq_OwnNormalizers(z, dx, dy) ==
  IF Len(z.shape) # 2 THEN Raise("ValueError", "z must be a 2-D array of shape (M, N)")
  ELSE IF ~FracLess(QZero, dx) \/ ~FracLess(QZero, dy)
  THEN Raise("ValueError", "dx and dy must be > 0")
  ELSE IF z.shape[1] < 2 \/ z.shape[2] < 2
  THEN Raise("ValueError", "z must have at least 2x2 samples to compute gradients")
  ELSE LET dZdx == DiffColumns(z)
           dZdy == DiffRows(z)
       IN  Value([num |-> "root",
                  of |-> QAdd(QDiv(SumSquares(dZdx, dx), Ratio(Len(dZdx), 1)),
                              QDiv(SumSquares(dZdy, dy), Ratio(Len(dZdy), 1))),
                  unit |-> z.base.unit])

\* sdq(z, dx, dy): sqrt(of) * 2^unit
sdq(z, dx, dy) ==
  IF Len(z.shape) # 2 THEN Raise("ValueError", "z must be a 2-D array of shape (M, N)")
  ELSE IF ~FracLess(QZero, dx) \/ ~FracLess(QZero, dy)
  THEN Raise("ValueError", "dx and dy must be > 0")
  ELSE IF z.shape[1] < 2 \/ z.shape[2] < 2
  THEN Raise("ValueError", "z must have at least 2x2 samples to compute gradients")
  ELSE LET num == QAdd(SumSquares(DiffColumns(z), dx), SumSquares(DiffRows(z), dy))
           denom == (z.shape[1] - 1) * (z.shape[2] - 1)
       IN  Value([num |-> "root", of |-> QDiv(num, Ratio(denom, 1)), unit |-> z.base.unit])

\* sq_value, computed when it is not given
SqOrGiven(z, sq_value) == IF sq_value = None THEN sq(z).value ELSE sq_value

\* sku(z, sq_value): q * 2^unit, +inf when sq_value == 0
sku(z, sq_value) ==
  LET c == mean_center(z)
  IN  IF c.kind = "raise" THEN c
      ELSE LET s == SqOrGiven(z, sq_value)
           IN  IF s.num = "root" /\ s.of = QZero THEN Value(Infinity)
               ELSE IF c.value = NaN \/ s = NaN THEN Value(NaN)
               ELSE Value([num |-> "ratio",
                           q |-> QDiv(MeanPower(z, c.value, 4), QPow(s.of, 2)),
                           unit |-> 4 * (z.base.unit - s.unit)])

\* ssk(z, sq_value): q / sqrt(of) * 2^unit, nan when sq_value == 0
ssk(z, sq_value) ==
  LET c == mean_center(z)
  IN  IF c.kind = "raise" THEN c
      ELSE LET s == SqOrGiven(z, sq_value)
           IN  IF s.num = "root" /\ s.of = QZero THEN Value(NaN)
               ELSE IF c.value = NaN \/ s = NaN THEN Value(NaN)
               ELSE Value([num |-> "over_root",
                           q |-> QDiv(MeanPower(z, c.value, 3), s.of),
                           of |-> s.of,
                           unit |-> 3 * (z.base.unit - s.unit)])

\* A bundle that hands sa, not sq, to sku and ssk.
roughness_functions_SaToMoments(z, dx, dy) ==
  LET sq_val == sq(z)
      sa_val == sa(z)
      sdq_val == sdq(z, dx, dy)
  IN  IF sq_val.kind = "raise" THEN sq_val
      ELSE IF sa_val.kind = "raise" THEN sa_val
      ELSE IF sdq_val.kind = "raise" THEN sdq_val
      ELSE LET given == [num |-> "root", of |-> QPow(sa_val.value.q, 2),
                         unit |-> sa_val.value.unit]
               sku_val == sku(z, given)
               ssk_val == ssk(z, given)
           IN  IF sku_val.kind = "raise" THEN sku_val
               ELSE IF ssk_val.kind = "raise" THEN ssk_val
               ELSE Value(<<sq_val.value, sa_val.value, sdq_val.value,
                            sku_val.value, ssk_val.value>>)

\* roughness_functions(z, dx, dy): (sq, sa, sdq, sku, ssk)
roughness_functions(z, dx, dy) ==
  LET sq_val == sq(z)
      sa_val == sa(z)
      sdq_val == sdq(z, dx, dy)
  IN  IF sq_val.kind = "raise" THEN sq_val
      ELSE IF sa_val.kind = "raise" THEN sa_val
      ELSE IF sdq_val.kind = "raise" THEN sdq_val
      ELSE LET sku_val == sku(z, sq_val.value)
               ssk_val == ssk(z, sq_val.value)
           IN  IF sku_val.kind = "raise" THEN sku_val
               ELSE IF ssk_val.kind = "raise" THEN ssk_val
               ELSE Value(<<sq_val.value, sa_val.value, sdq_val.value,
                            sku_val.value, ssk_val.value>>)

(***************************************************************************)
(* The roughness functions as a state machine: one call per behaviour, on  *)
(* a grid and two spacings.                                                *)
(***************************************************************************)
\* the shapes of 0-D, 1-D, 2-D and 3-D arrays of at most MaxCells samples, the
\* sides of the 2-D ones at most MaxSide
Shapes ==
  {<<>>} \cup {<<n>> : n \in 0..MaxCells}
    \cup {s \in (0..MaxSide) \X (0..MaxSide) : s[1] * s[2] <= MaxCells}
    \cup {s \in (1..2) \X (1..2) \X (1..2) : s[1] * s[2] * s[3] <= MaxCells}

\* the number of samples of a shape
RECURSIVE Cells(_)
Cells(s) == IF s = <<>> THEN 1 ELSE Head(s) * Cells(Tail(s))

Grids ==
  UNION {{[shape |-> s, base |-> b, samples |-> k] :
            b \in {Origin, Tenth}, k \in [1..Cells(s) -> Offsets]} : s \in Shapes}

Spacings == {Ratio(-1, 1), QZero, Ratio(1, 2), Ratio(2, 1)}

InitRough ==
  /\ args \in [z : Grids, dx : Spacings, dy : Spacings]
  /\ nodes = <<>> /\ idx = [w |-> 3, rows |-> <<>>]
  /\ call = "none"
  /\ res = NoResult
  /\ StlIdle

CallSq == Returns("sq", sq(args.z))

CallSa == Returns("sa", sa(args.z))

CallSdq == Returns("sdq", sdq(args.z, args.dx, args.dy))

CallSku == Returns("sku", sku(args.z, None))

CallSsk == Returns("ssk", ssk(args.z, None))

CallRoughnessFunctions ==
  Returns("roughness_functions", roughness_functions(args.z, args.dx, args.dy))

NextRough ==
  \/ CallSq
  \/ CallSa
  \/ CallSdq
  \/ CallSku
  \/ CallSsk
  \/ CallRoughnessFunctions

SpecRough == InitRough /\ [][NextRough]_vars

(***************************************************************************)
(* Claims about the roughness functions (SpecRough).                       *)
(***************************************************************************)
\* Z[i, j] of a 2-D grid, 1-based, in units
Height(z, i, j) == Ratio(z.samples[(i - 1) * z.shape[2] + j], 1)

\* the sum of the values of a function of fractions
RECURSIVE SumOver(_)
SumOver(f) ==
  IF DOMAIN f = {} THEN QZero
  ELSE LET x == CHOOSE x \in DOMAIN f : TRUE
       IN  QAdd(f[x], SumOver([y \in DOMAIN f \ {x} |-> f[y]]))

\* the squared forward differences within each row, over dx
SlopesAlongColumns(z, dx) ==
  [p \in (1..z.shape[1]) \X (1..(z.shape[2] - 1)) |->
     QPow(QDiv(QSub(Height(z, p[1], p[2] + 1), Height(z, p[1], p[2])), dx), 2)]

\* the squared forward differences between consecutive rows, over dy
SlopesAlongRows(z, dy) ==
  [p \in (1..(z.shape[1] - 1)) \X (1..z.shape[2]) |->
     QPow(QDiv(QSub(Height(z, p[1] + 1, p[2]), Height(z, p[1], p[2])), dy), 2)]

\* sdq must refuse the arguments
SdqRefuses(z, dx, dy) ==
  \/ Len(z.shape) # 2
  \/ ~FracLess(QZero, dx)
  \/ ~FracLess(QZero, dy)
  \/ \E a \in 1..Len(z.shape) : z.shape[a] < 2

\* all samples of the grid are equal
Constant(z) == \A i, j \in 1..Len(z.samples) : z.samples[i] = z.samples[j]

\* C22: sdq(z, dx, dy) raises ValueError iff z is not 2-D, or dx <= 0 or
\* dy <= 0, or a side of the grid is < 2; otherwise, for an M x N grid, it
\* returns the square root of (the sum, over the M*(N-1) forward differences
\* along the columns, of (dz/dx)^2 + the sum, over the (M-1)*N forward
\* differences along the rows, of (dz/dy)^2) divided by (M-1)*(N-1), so that
\* a constant grid gives 0.
C22_SdqGuardsAndValue ==
  call = "sdq"
    => LET z == args.z
       IN  /\ res.kind = "raise" <=> SdqRefuses(z, args.dx, args.dy)
           /\ res.kind = "raise" => res.type = "ValueError"
           /\ res.kind = "ok"
                => LET M == z.shape[1]
                       N == z.shape[2]
                       cols == SlopesAlongColumns(z, args.dx)
                       rows == SlopesAlongRows(z, args.dy)
                   IN  /\ Cardinality(DOMAIN cols) = M * (N - 1)
                       /\ Cardinality(DOMAIN rows) = (M - 1) * N
                       /\ res.value.num = "root"
                       /\ res.value.unit = z.base.unit
                       /\ res.value.of
                            = QDiv(QAdd(SumOver(cols), SumOver(rows)),
                                   Ratio((M - 1) * (N - 1), 1))
                       /\ Constant(z) => res.value.of = QZero

\* sdq returned the slope of a grid of two rows and three columns that is
\* not constant, for two different spacings
C22_Witness ==
  /\ call = "sdq" /\ res.kind = "ok"
  /\ args.z.shape = <<2, 3>> /\ ~Constant(args.z)
  /\ args.dx # args.dy
  /\ res.value.of # QZero

\* a grid of at least one dimension and at least one sample
NonEmptyGrid(z) == Len(z.shape) >= 1 /\ z.samples # <<>>

\* C23: for every non-empty height grid whose samples are all equal, sku
\* returns +infinity and ssk returns not-a-number; for every grid with
\* sq > 0, sku returns mean((z-mean)^4)/sq^4 and ssk returns
\* mean((z-mean)^3)/sq^3, both finite.
C23_FlatSentinels ==
  LET z == args.z
  IN  /\ call = "sku" /\ NonEmptyGrid(z) /\ Constant(z) => res = Value(Infinity)
      /\ call = "ssk" /\ NonEmptyGrid(z) /\ Constant(z) => res = Value(NaN)
      /\ call \in {"sku", "ssk"} /\ NonEmptyGrid(z) /\ ~Constant(z)
           => LET zm == mean_center(z).value
                  v == MeanPower(z, zm, 2)
              IN  /\ FracLess(QZero, v)
                  /\ call = "sku"
                       => res = Value([num |-> "ratio", unit |-> 0,
                                       q |-> QDiv(MeanPower(z, zm, 4), QMul(v, v))])
                  /\ call = "ssk"
                       => res = Value([num |-> "over_root", unit |-> 0, of |-> v,
                                       q |-> QDiv(MeanPower(z, zm, 3), v)])

\* C24: roughness_functions(z, dx, dy) raises exactly when sdq(z, dx, dy)
\* raises (so for every 1-D z, which sq and sa accept), and otherwise
\* returns (sq(z), sa(z), sdq(z, dx, dy), sku(z), ssk(z)) in that order: the
\* sq handed to sku and ssk gives what sku(z) and ssk(z) give alone.
C24_BundleOfFive ==
  call = "roughness_functions"
    => LET z == args.z
           d == sdq(z, args.dx, args.dy)
       IN  /\ res.kind = "raise" <=> d.kind = "raise"
           /\ res.kind = "raise" => DOMAIN res = {"kind", "type", "msg"}
           /\ Len(z.shape) = 1
                => res.kind = "raise" /\ sq(z).kind = "ok" /\ sa(z).kind = "ok"
           /\ res.kind = "ok"
                => res.value = <<sq(z).value, sa(z).value, d.value,
                                 sku(z, None).value, ssk(z, None).value>>

\* roughness_functions returned five values for a grid whose sq and sa
\* differ and whose skewness is not 0
C24_Witness ==
  /\ call = "roughness_functions" /\ res.kind = "ok" /\ Len(res.value) = 5
  /\ res.value[1].of # QPow(res.value[2].q, 2)
  /\ res.value[4].num = "ratio"
  /\ res.value[5].num = "over_root" /\ res.value[5].q # QZero

Relative(row, j, ax, c) == c.den * At(nodes, row[j])[ax] - c.num[ax]

\* Sx (ax = bx: and Sxx) of one tetrahedron, times c.den (c.den^2)
VertexSum(row, ax, c) ==
  SumSeq([j \in 1..4 |-> Relative(row, j, ax, c)])

VertexProducts(row, ax, bx, c) ==
  SumSeq([j \in 1..4 |-> Relative(row, j, ax, c) * Relative(row, j, bx, c)])

\* sum_t 6 V_t (Sa^2 + Saa + Sb^2 + Sbb), times c.den^2
MomentSum(rows, ax, bx, c) ==
  SumSeq([t \in 1..Len(rows) |->
            TetVolume6(nodes, rows[t])
              * (VertexSum(rows[t], ax, c) * VertexSum(rows[t], ax, c)
                 + VertexProducts(rows[t], ax, ax, c)
                 + VertexSum(rows[t], bx, c) * VertexSum(rows[t], bx, c)
                 + VertexProducts(rows[t], bx, bx, c))])

\* sum_t 6 V_t (Sa * Sb + Sab), times c.den^2
ProductSum(rows, ax, bx, c) ==
  SumSeq([t \in 1..Len(rows) |->
            TetVolume6(nodes, rows[t])
              * (VertexSum(rows[t], ax, c) * VertexSum(rows[t], bx, c)
                 + VertexProducts(rows[t], ax, bx, c))])

\* the entry n / d of a tensor equals s / (120 * c.den^2), where
\* V_t / 20 = 6 V_t / 120
EntryIs(n, d, s, c) == n * 120 * c.den * c.den = d * s

\* C26: with calculate_inertia=True the current inertia tensor is symmetric,
\* its diagonal is (Ixx, Iyy, Izz) with Ixx = sum_t (V_t/20)(Sy^2 + Syy +
\* Sz^2 + Szz) and the cyclic analogues, its off-diagonal entries are -Ixy,
\* -Ixz, -Iyz with Ixy = sum_t (V_t/20)(Sx*Sy + Sxy), the sums being over the
\* vertex coordinates relative to the computed centroid; so every diagonal
\* entry is >= 0 and at most the sum of the other two.
C26_InertiaEntries ==
  call = "volume_inertia" /\ res.kind = "ok"
    => LET I == res.current.num
           d == res.current.den
           c == res.centroid
           rows == res.elements.rows
       IN  /\ I[2] = I[4] /\ I[3] = I[7] /\ I[6] = I[8]
           /\ EntryIs(I[1], d, MomentSum(rows, 2, 3, c), c)
           /\ EntryIs(I[5], d, MomentSum(rows, 1, 3, c), c)
           /\ EntryIs(I[9], d, MomentSum(rows, 1, 2, c), c)
           /\ EntryIs(I[2], d, -ProductSum(rows, 1, 2, c), c)
           /\ EntryIs(I[3], d, -ProductSum(rows, 1, 3, c), c)
           /\ EntryIs(I[6], d, -ProductSum(rows, 2, 3, c), c)
           /\ I[1] >= 0 /\ I[5] >= 0 /\ I[9] >= 0
           /\ I[1] <= I[5] + I[9] /\ I[5] <= I[1] + I[9] /\ I[9] <= I[1] + I[5]

\* an inertia tensor was returned with a product of inertia that is not 0,
\* about a centroid off the origin
C26_Witness ==
  /\ call = "volume_inertia" /\ res.kind = "ok"
  /\ res.current.num[2] # 0
  /\ res.centroid # Frac(<<0, 0, 0>>, 1)

(***************************************************************************)
(* Claims about the loaded mesh (SpecStl).                                 *)
(***************************************************************************)
\* C27: every successful call of load_stl returns a mesh of at least one
\* triangle and at least one node; a file from which no triangle results (so
\* the binary file of 84 bytes that declares 0 triangles) fails with
\* ValueError.  Stated for the built-in loader, whose code is in the source.
C27_NeverEmpty ==
  lpc = "done" /\ ~HAS_TRIMESH /\ exists
    => /\ out.kind = "ok" => Len(out.faces) >= 1 /\ Len(out.nodes) >= 1
       /\ triangles \in {"None", <<>>}
            => out.kind = "raise" /\ out.type = "ValueError"

\* the faces of the returned mesh as an index array
LoadedFaces == [w |-> 3, rows |-> out.faces]

\* C28: every (nodes, faces) pair the built-in loader returns with at least
\* one triangle, merged or not, has all face indices in [0, |nodes|) and the
\* largest of them equal to |nodes| - 1; so surface_area and
\* surface_orientation_tensor neither convert it as 1-based nor raise the
\* index-range error on it.
C28_LoadedIndicesFit ==
  (Loaded /\ Len(out.faces) >= 1)
    => LET a == LoadedFaces
           N == Len(out.nodes)
       IN  /\ Entries(a) \subseteq 0..(N - 1)
           /\ Max(Entries(a)) = N - 1
           /\ ~OneBased(a, N)
           /\ ConvertIndices(a, N) = a
           /\ ~OutOfRange(ConvertIndices(a, N), N)

\* a mesh was returned with merged vertices: fewer nodes than face corners,
\* more than one node, and an index 1 among the faces
C28_Witness ==
  /\ Loaded /\ merge /\ Len(out.faces) >= 1
  /\ Len(out.nodes) > 1 /\ Len(out.nodes) < 3 * Len(out.faces)
  /\ 1 \in Entries(LoadedFaces)

(***************************************************************************)
(* Claims about the orientation tensor and the two areas (SpecMesh).       *)
(***************************************************************************)
\* the 2 x 2 principal minor of the rows and columns i < j of a 3 x 3 matrix
\* m, given row by row
Minor2(m, i, j) ==
  m[3 * (i - 1) + i] * m[3 * (j - 1) + j] - m[3 * (i - 1) + j] * m[3 * (j - 1) + i]

\* the determinant of a 3 x 3 matrix given row by row
Det9(m) ==
  m[1] * (m[5] * m[9] - m[6] * m[8]) - m[2] * (m[4] * m[9] - m[6] * m[7])
    + m[3] * (m[4] * m[8] - m[5] * m[7])

\* a symmetric matrix of integers is positive semi-definite: every principal
\* minor is >= 0
PositiveSemiDefinite(m) ==
  /\ m[2] = m[4] /\ m[3] = m[7] /\ m[6] = m[8]
  /\ m[1] >= 0 /\ m[5] >= 0 /\ m[9] >= 0
  /\ Minor2(m, 1, 2) >= 0 /\ Minor2(m, 1, 3) >= 0 /\ Minor2(m, 2, 3) >= 0
  /\ Det9(m) >= 0

\* C29: in surface_orientation_tensor the error "largest eigenvalue
\* non-positive" is never raised: in every call that passes the test of
\* total_area the tensor f is positive semi-definite with trace 1, so that
\* its largest eigenvalue is >= 1/3.
C29_EigenvalueErrorUnreachable ==
  call = "orientation"
    => /\ res.kind = "raise"
            => res.msg # "largest eigenvalue non-positive; invalid orientation tensor"
       /\ (res.kind = "ok" /\ res.f.rational)
            => /\ PositiveSemiDefinite(res.f.m.num)
               /\ res.f.m.num[1] + res.f.m.num[5] + res.f.m.num[9] = res.f.m.den
       /\ (res.kind = "ok" /\ res.evaluated)
            => ~FracLess(res.eigen_values[1], Ratio(1, 3))

\* the indices were returned for a tensor of two positive eigenvalues, the
\* largest below 1
C29_Witness ==
  /\ call = "orientation" /\ res.kind = "ok" /\ res.evaluated
  /\ FracLess(QZero, res.eigen_values[2])
  /\ FracLess(res.eigen_values[1], Ratio(1, 1))

(***************************************************************************)
(* The area vectors of geometry.py and form.py on doubles.  A coordinate   *)
(* is a double that is a whole number, [neg, hi, lo] for                   *)
(* +-(hi * Limb + lo); differences and products are rounded to             *)
(* MantissaBits bits as binary64 rounds them.  A product is evaluated      *)
(* where one factor is below Limb and the result below 2^31 * Limb, which  *)
(* the meshes below keep to.                                               *)
(***************************************************************************)
\* the largest small coordinate
MaxSmall == 2

\* the double of a small whole number
Whole(n) == [neg |-> n < 0, hi |-> 0, lo |-> Abs(n)]

\* the double k * (2^53 + 4), k >= 0
Wide(k) ==
  LET m == Carry(k * Pow(2, MantissaBits - LimbBits), 4 * k)
  IN  [neg |-> FALSE, hi |-> m.hi, lo |-> m.lo]

MagLess(a, b) == a.hi < b.hi \/ (a.hi = b.hi /\ a.lo < b.lo)

\* a - b of two magnitudes, a >= b
MagSub(a, b) ==
  IF a.lo >= b.lo THEN [hi |-> a.hi - b.hi, lo |-> a.lo - b.lo]
  ELSE [hi |-> a.hi - b.hi - 1, lo |-> a.lo + Limb - b.lo]

\* the double of sign neg and magnitude m, rounded
Rounded(neg, m) ==
  LET r == RoundEven(m, Excess(m))
  IN  [neg |-> neg /\ (r.hi # 0 \/ r.lo # 0), hi |-> r.hi, lo |-> r.lo]

\* a + b
DoubleAdd(a, b) ==
  IF a.neg = b.neg THEN Rounded(a.neg, Carry(a.hi + b.hi, a.lo + b.lo))
  ELSE IF MagLess(a, b) THEN Rounded(b.neg, MagSub(b, a))
  ELSE Rounded(a.neg, MagSub(a, b))

\* a - b
DoubleSub(a, b) == DoubleAdd(a, [neg |-> ~b.neg, hi |-> b.hi, lo |-> b.lo])

\* a * b, one factor below Limb
DoubleMul(a, b) ==
  LET k == IF a.hi = 0 THEN a.lo ELSE b.lo
      m == IF a.hi = 0 THEN b ELSE a
  IN  Rounded(a.neg # b.neg, Carry(k * m.hi, k * m.lo))

\* p - q of two points
PointSub(p, q) == [c \in 1..3 |-> DoubleSub(p[c], q[c])]

\* np.cross(a, b) of two vectors
DoubleCross(a, b) ==
  <<DoubleSub(DoubleMul(a[2], b[3]), DoubleMul(a[3], b[2])),
    DoubleSub(DoubleMul(a[3], b[1]), DoubleMul(a[1], b[3])),
    DoubleSub(DoubleMul(a[1], b[2]), DoubleMul(a[2], b[1]))>>

\* np.linalg.norm(v) == 0 for a vector of whole numbers
ZeroNorm(v) == \A c \in 1..3 : v[c].hi = 0 /\ v[c].lo = 0

\* surface_area(nodes, faces) on doubles: the vectors np.cross(v1, v2) and
\* whether the area returned is 0.0; the area itself is not evaluated
surface_area_of_doubles(nd, fa) ==
  IF fa.w # 3 THEN Raise("ValueError", "faces must have shape (M, 3)")
  ELSE LET faces == ConvertIndices(fa, Len(nd))
           cross_prod == [k \in 1..Len(faces.rows) |->
                            LET r == faces.rows[k]
                            IN  DoubleCross(PointSub(At(nd, r[2]), At(nd, r[1])),
                                            PointSub(At(nd, r[3]), At(nd, r[1])))]
       IN  IF OutOfRange(faces, Len(nd))
           THEN Raise("ValueError", "face indices out of range for nodes array")
           ELSE [kind |-> "ok", cross_prod |-> cross_prod,
                 zero |-> \A k \in 1..Len(cross_prod) : ZeroNorm(cross_prod[k])]

\* surface_orientation_tensor(nodes, faces) on doubles, up to the test of
\* total_area: the vectors np.cross(e_AB, e_BC) and the error of a total
\* area of 0; the tensor is not evaluated
orientation_area_of_doubles(nd, fa) ==
  IF fa.w # 3 THEN Raise("ValueError", "faces must have shape (M, 3)")
  ELSE LET faces == ConvertIndices(fa, Len(nd))
           v == [k \in 1..Len(faces.rows) |->
                   LET r == faces.rows[k]
                   IN  DoubleCross(PointSub(At(nd, r[2]), At(nd, r[1])),
                                   PointSub(At(nd, r[3]), At(nd, r[2])))]
       IN  IF OutOfRange(faces, Len(nd))
           THEN Raise("ValueError", "face indices out of range for nodes array")
           ELSE IF \A k \in 1..Len(v) : ZeroNorm(v[k])
           THEN Raise("ValueError", "total surface area is zero; mesh may be degenerate")
           ELSE [kind |-> "ok", v |-> v]

\* The meshes of doubles: one triangle in the plane z = 0, its first corner
\* at 0 or 1, its second at small whole numbers, its third at small whole
\* numbers or at multiples of 2^53 + 4; the indices 0-based or 1-based.
SmallCoordinates == {Whole(n) : n \in 0..MaxSmall}

WideCoordinates == SmallCoordinates \cup {Wide(k) : k \in 1..MaxSmall}

InitDoubles ==
  /\ \E ax, ay \in {Whole(0), Whole(1)} : \E bx, by \in SmallCoordinates :
       \E cx, cy \in WideCoordinates :
         nodes = <<(<<ax, ay, Whole(0)>>), (<<bx, by, Whole(0)>>), (<<cx, cy, Whole(0)>>)>>
  /\ \E k \in {0, 1} : idx = [w |-> 3, rows |-> <<(<<k, k + 1, k + 2>>)>>]
  /\ call = "none"
  /\ res = NoResult
  /\ args = <<>>
  /\ StlIdle

CallSurfaceAreaOfDoubles ==
  /\ call = "none"
  /\ call' = "surface_area"
  /\ res' = surface_area_of_doubles(nodes, idx)
  /\ idx' = CallersIndices(idx, Len(nodes))
  /\ UNCHANGED <<nodes, args>>
  /\ UNCHANGED stlVars

CallOrientationOfDoubles ==
  /\ call = "none"
  /\ call' = "orientation"
  /\ res' = orientation_area_of_doubles(nodes, idx)
  /\ idx' = CallersIndices(idx, Len(nodes))
  /\ UNCHANGED <<nodes, args>>
  /\ UNCHANGED stlVars

NextDoubles ==
  \/ CallSurfaceAreaOfDoubles
  \/ CallOrientationOfDoubles

SpecDoubles == InitDoubles /\ [][NextDoubles]_vars

\* C30: for every valid mesh the area vector (B-A) x (C-B) of
\* surface_orientation_tensor equals the area vector (B-A) x (C-A) of
\* surface_area, face by face; so the total_area of the one equals what the
\* other returns, and surface_orientation_tensor raises the error of a zero
\* area exactly when surface_area returns 0.
C30_SameAreaVectors ==
  call = "orientation"
    => LET a == surface_area_of_doubles(nodes, idx)
       IN  /\ a.kind = "ok" <=> (res.kind = "ok" \/ res.msg = "total surface area is zero; mesh may be degenerate")
           /\ res.kind = "ok" => res.v = a.cross_prod
           /\ a.kind = "ok"
                => (res.kind = "raise" <=> a.zero)

====
